---- MODULE Spec2Model ----
(***************************************************************************)
(* Verification model of the pose-detection system.                       *)
(*                                                                         *)
(*   - pose engine (pose_detector.py): calibration state machine, the     *)
(*     per-frame action detection and confidence scoring;                 *)
(*   - utility layer (utils.py): ActionBuffer, KeyboardSimulator;         *)
(*   - GUI detection worker (gui_app.py): one loop iteration;             *)
(*   - speech backend A (audio_manager.py): priority queue and worker.    *)
(*                                                                         *)
(* Units.  Image coordinates and visibilities are normalised floats in    *)
(* the source; here they are integers in thousandths (0.15 -> 150).       *)
(* Confidence scores are thousandths too.  Wall-clock time (time.time())  *)
(* is counted in ticks of 0.25 s: 0.5 s is 2 ticks and 1.0 s is 4 ticks.  *)
(***************************************************************************)
EXTENDS Integers, Sequences, FiniteSets, TLC

\* ------------------------------------------------------------------------
\* Bounds of the exploration
\* ------------------------------------------------------------------------
MaxClock == 3
MaxBufferClock == 9
MaxPoseChanges == 2
MaxTracked == 1
MaxResets == 1
MaxSwitches == 2
MaxPresses == 4
MaxPlays == 3
MaxMutes == 1
MaxGenCalls == 3
MaxApiCalls == 3
MaxSessionFrames == 2
MaxSessionClock == 5
MaxToggles == 2
MaxLoopPasses == 6
MaxMgrCalls == 3
MaxStarts == 3
MaxTrackFrames == 2
MaxTrackClock == 6
MaxHandled == 3
MaxShowClock == 6

\* ------------------------------------------------------------------------
\* messages.py: DetectionThresholds and the action catalog
\* ------------------------------------------------------------------------
HAND_RAISE_THRESHOLD == 150
FOOT_RAISE_THRESHOLD == 100
CALIBRATION_FRAMES == 15
STABILITY_THRESHOLD == 80

BODY_NOT_COMPLETE == "BODY_NOT_COMPLETE"
DISTANCE_TOO_CLOSE == "DISTANCE_TOO_CLOSE"
DISTANCE_TOO_FAR == "DISTANCE_TOO_FAR"
CALIBRATION_SUCCESS_CANTONESE == "CALIBRATION_SUCCESS_CANTONESE"
NoPrompt == "None"

\* Messages.ACTION_KEYS, in dictionary order
ActionKeyOrder ==
  << "left_hand", "right_hand", "both_hands", "left_foot", "left_knee",
     "right_foot", "right_knee", "turn_left_head", "turn_right_head" >>

Actions == { ActionKeyOrder[i] : i \in 1..Len(ActionKeyOrder) }

ACTION_KEYS_shared_key ==
  [ left_hand |-> "A", right_hand |-> "B", both_hands |-> "C",
    left_foot |-> "D", left_knee |-> "E", right_foot |-> "F",
    right_knee |-> "G", turn_left_head |-> "1", turn_right_head |-> "1" ]

ACTION_KEYS ==
  [ left_hand |-> "A", right_hand |-> "B", both_hands |-> "C",
    left_foot |-> "D", left_knee |-> "E", right_foot |-> "F",
    right_knee |-> "G", turn_left_head |-> "1", turn_right_head |-> "2" ]

get_action_key(action) ==
  IF action \in DOMAIN ACTION_KEYS THEN ACTION_KEYS[action] ELSE ""

\* Messages.ACTION_INSTRUCTIONS and Messages.ACTION_SUCCESS, the Chinese
\* texts written in English
ACTION_INSTRUCTIONS ==
  [ left_hand |-> "key 'A' -> raise the left hand",
    right_hand |-> "key 'B' -> raise the right hand",
    both_hands |-> "key 'C' -> raise both hands",
    left_foot |-> "key 'D' -> raise the left foot",
    left_knee |-> "key 'E' -> raise the left knee",
    right_foot |-> "key 'F' -> raise the right foot",
    right_knee |-> "key 'G' -> raise the right knee",
    turn_left_head |-> "key '1' -> turn the head left",
    turn_right_head |-> "key '2' -> turn the head right" ]

ACTION_SUCCESS_PHRASES ==
  [ left_hand |-> "detected: left hand raised",
    right_hand |-> "detected: right hand raised",
    both_hands |-> "detected: both hands raised",
    left_foot |-> "detected: left foot raised",
    left_knee |-> "detected: left knee raised",
    right_foot |-> "detected: right foot raised",
    right_knee |-> "detected: right knee raised",
    turn_left_head |-> "detected: head turned left",
    turn_right_head |-> "detected: head turned right" ]

\* Messages.get_all_instructions(): the instructions in dictionary order,
\* joined by a full stop
RECURSIVE JoinInstructions(_)
JoinInstructions(i) ==
  IF i > Len(ActionKeyOrder) THEN ""
  ELSE ACTION_INSTRUCTIONS[ActionKeyOrder[i]]
         \o (IF i < Len(ActionKeyOrder) THEN "." ELSE "")
         \o JoinInstructions(i + 1)

get_all_instructions == JoinInstructions(1)

\* ------------------------------------------------------------------------
\* Arithmetic helpers
\* ------------------------------------------------------------------------
Abs(n) == IF n < 0 THEN -n ELSE n
Min(a, b) == IF a < b THEN a ELSE b
Max(a, b) == IF a > b THEN a ELSE b

\* ------------------------------------------------------------------------
\* Landmarks delivered by the pose-estimation library for one frame
\* ------------------------------------------------------------------------
Pt(px, py) == [ x |-> px, y |-> py, z |-> 0, visibility |-> 1000 ]

\* standing, arms hanging: wrists 0.2 below the shoulders
Stand ==
  [ nose |-> Pt(500, 150),
    left_shoulder |-> Pt(400, 300), right_shoulder |-> Pt(600, 300),
    left_hip |-> Pt(420, 550), right_hip |-> Pt(580, 550),
    left_wrist |-> Pt(300, 500), right_wrist |-> Pt(700, 500),
    left_knee |-> Pt(420, 720), right_knee |-> Pt(580, 720),
    left_ankle |-> Pt(400, 900), right_ankle |-> Pt(600, 900) ]

\* standing with the forearms held up: wrists 0.1 below the shoulders
StandHigh ==
  [ Stand EXCEPT !.left_wrist.y = 400, !.right_wrist.y = 400 ]

\* the raw right wrist dy higher than in lm, everything else as in lm
RaiseRightWrist(lm, dy) == [ lm EXCEPT !.right_wrist.y = @ - dy ]

FramePool ==
  [ Stand |-> Stand,
    Hidden |-> [ Stand EXCEPT !.right_wrist.visibility = 300 ],
    TooClose |-> [ Stand EXCEPT !.left_shoulder.x = 350,
                                !.right_shoulder.x = 650 ],
    TooFar |-> [ Stand EXCEPT !.left_shoulder.x = 450,
                              !.right_shoulder.x = 550 ],
    Leaning |-> [ Stand EXCEPT !.left_shoulder.y = 390 ],
    RaiseR |-> RaiseRightWrist(Stand, 250),
    RaiseRFull |-> RaiseRightWrist(Stand, 350),
    BothMid |-> [ Stand EXCEPT !.left_wrist.y = 200, !.right_wrist.y = 200 ],
    BothHigh |-> [ Stand EXCEPT !.left_wrist.y = 100, !.right_wrist.y = 100 ],
    FootL |-> [ Stand EXCEPT !.right_ankle.y = 780 ] ]

\* a frame in which the library finds no pose
NoPose == "NoPose"
\* the frames of the sessions that track several actions: both wrists 0.1
\* above the shoulders, both wrists 0.2 above the shoulders, the raw right
\* ankle 0.12 higher than when standing
TrackFrames == { "Stand", "RaiseR", "RaiseRFull", "BothMid", "BothHigh", "FootL" }
FrameNames == (DOMAIN FramePool \ { "BothMid", "BothHigh", "FootL" }) \cup { NoPose }

\* ------------------------------------------------------------------------
\* State
\* ------------------------------------------------------------------------
VARIABLES
  now,             \* time.time(), in ticks
  pose_detector,   \* the PoseDetector object
  action_buffer,   \* utils.action_buffer: the four dictionaries of ActionBuffer
  KEYBOARD_LIB,    \* utils.KEYBOARD_LIB, fixed when the module is imported
  last_key_time,   \* utils.keyboard_sim.last_key_time
  gui,             \* PoseDetectionGUI: last_action, last_key, enable flags
  \* what the detection worker did in its last iteration, and its history
  frame,           \* name of the frame read
  results,         \* detection_results returned by process_frame
  added,           \* items handed to add_detection in that frame
  triggered,       \* list returned by get_triggered_actions
  injected,        \* key injections made in that iteration
  requested,       \* keys press_key was called with in that iteration
  spoken,          \* texts handed to the speech backend in that iteration
  poseChanges,     \* number of times the pose changed while calibrating
  tracked,         \* frames processed since calibration completed
  resets,          \* number of reset_calibration calls
  stableRunAll,    \* stable frames in a row, over all frames processed
  stableRunSeen,   \* the same, leaving out frames in which no pose was found
  promptCount,     \* prompts carried by results since the session began
  held,            \* length and injections of the current raised-wrist hold
  distanceSeen,    \* kinds of distance problem checked in this calibration
  \* the last ActionBuffer call of the buffer exerciser, and its history
  bufCall, window, recorded, runStart, runLast, switches, prevCallStable,
  fired, falseSinceFire, unstableSinceFire, dropSinceFire, streakAfterFire,
  \* the last press_key request of the keyboard exerciser, and its history
  keyCall, successLog, presses,
  \* the inputs and the result of one hand-raise check
  handIn, handOut,
  \* audio_manager.py: the AudioManager object, its playback thread, the
  \* thread that is inside play_text, and the clips played so far
  audio, play_thread, caller, played,
  mutedAtStart     \* the values of is_muted at the moments a clip started

VARIABLES
  \* the sound directory and the calls of _generate_audio_file
  GTTS_AVAILABLE,  \* fixed when the audio module is imported
  sound_files,     \* paths of the files in SystemConfig.SOUND_DIR
  synth_requests,  \* per text, the synthesis requests made so far
  made, returned, genCall, genCalls

VARIABLES
  \* the speech manager of backend B, C or D and the threads inside it
  backend,         \* which manager class is in use
  tts,             \* is_enabled, is_speaking, and whether engine is set
  engine_lock,     \* the thread holding _engine_lock, or "none"
  speech_queue,    \* backend B: _speech_queue
  thr,             \* per thread: where it is, and its last request
  apiCalls,        \* number of calls made so far
  route            \* backend D: how the is_speaking guard was bypassed
VARIABLES
  script           \* frames the camera is still to deliver before any other
VARIABLES
  mode,            \* the run mode of the orchestrator: gui or console
  toggles          \* number of times a check box of the GUI was clicked
VARIABLES
  \* the orchestrator process, from import to exit
  args,            \* the parsed command line
  main_pc,         \* where main() is
  exit_code,       \* the exit status, once exited
  CAMERA_INDEX,    \* the class attribute SystemConfig.CAMERA_INDEX
  camera_default,  \* the default of CameraManager.__init__'s camera_index
  opened,          \* the indices handed to cv2.VideoCapture so far
  ran,             \* the checks and run modes entered so far
  run_outcome,     \* how the run mode ended: returned or raised
  cameras,         \* the camera indices that can be opened
  deps_ok          \* whether every required library can be imported
VARIABLES
  \* one detection loop: the GUI worker, console mode or the console demo
  loop_kind,       \* which of the three loops runs
  is_running,      \* the flag in the loop's while condition
  loop_pc,         \* "loop" while the loop runs, then "ended"
  end_cause,       \* what ended the loop
  frame_count,     \* frames read so far
  iterations,      \* passes through the loop body so far
  last_pass        \* what the last pass through the body did
VARIABLES
  \* one speech manager called by one thread, call after call
  mgr,             \* its class and its attributes
  mcall,           \* the last call: method, argument, values returned
  mgrCalls         \* number of calls made so far
VARIABLES
  \* the window of the GUI: start, stop and close
  app,             \* the attributes and widgets of PoseDetectionGUI
  handler,         \* the last handler run and the steps it performed
  camera_ok,       \* whether the camera can be opened at the moment
  starts,          \* number of start_system calls so far
  aborts           \* number of them that were aborted
VARIABLES
  \* what the frames tracked since calibration were accepted as
  recentMarks,     \* per tracked frame, the actions marked detected: last 30
  lastMiss         \* per action, when a tracked frame last left it out
VARIABLES
  \* the large key indicator of the GUI
  indicator,       \* the text of key_display
  revertAt,        \* the times at which pending after(1000) callbacks are due
  shownAt,         \* when update_key_display last put a key on the indicator
  handled          \* number of handle_action_triggered calls so far
VARIABLES
  \* the calibration prompts of a GUI session and the speech backend
  announcing,      \* the GUI thread is inside play_system_start
  emitted,         \* the voice prompts the pose engine has returned
  heard            \* the voice prompts the speech backend has accepted
VARIABLES
  \* the menu of the console demo and the components of its system
  menu_pc,         \* "menu", "demo" inside run_simple_demo, or how it ended
  parts,           \* per component: cleanups so far, used after a cleanup
  demo_sys,        \* camera_manager, running and frame_count of the demo
  choices          \* menu choices made so far

envVars == << now >>
poseVars == << pose_detector, gui >>
bufVars == << action_buffer >>
keyVars == << KEYBOARD_LIB, last_key_time >>
poseObs ==
  << frame, results, added, triggered, injected, requested, spoken,
     poseChanges,
     tracked, resets, stableRunAll, stableRunSeen, promptCount, held,
     distanceSeen >>
bufObs ==
  << bufCall, window, recorded, runStart, runLast, switches, prevCallStable,
     fired, falseSinceFire, unstableSinceFire, dropSinceFire, streakAfterFire >>
keyObs == << keyCall, successLog, presses >>
handVars == << handIn, handOut >>
audioVars == << audio, play_thread, caller, played, mutedAtStart >>
cacheVars ==
  << GTTS_AVAILABLE, sound_files, synth_requests, made, returned, genCall,
     genCalls >>
speechVars ==
  << backend, tts, engine_lock, speech_queue, thr, apiCalls, route >>
sessionVars == << script >>
modeVars == << mode, toggles >>
mainVars ==
  << args, main_pc, exit_code, CAMERA_INDEX, camera_default, opened, ran,
     run_outcome, cameras, deps_ok >>
loopVars ==
  << loop_kind, is_running, loop_pc, end_cause, frame_count, iterations,
     last_pass >>
mgrVars == << mgr, mcall, mgrCalls >>
winVars == << app, handler, camera_ok, starts, aborts >>
trackVars == << recentMarks, lastMiss >>
showVars == << indicator, revertAt, shownAt, handled >>
promptVars == << announcing, emitted, heard >>
menuVars == << menu_pc, parts, demo_sys, choices >>
extraVars == << trackVars, showVars, promptVars, menuVars >>
appVars == << loopVars, mgrVars, winVars, extraVars >>
laterVars == << sessionVars, modeVars, mainVars, appVars >>
otherVars == << cacheVars, speechVars, laterVars >>
oldVars ==
  << envVars, poseVars, bufVars, keyVars, poseObs, bufObs, keyObs, handVars,
     audioVars >>

\* ------------------------------------------------------------------------
\* Python dictionaries: functions whose domain grows
\* ------------------------------------------------------------------------
EmptyDict == [ k \in {} |-> 0 ]
Put(d, k, v) == [ j \in DOMAIN d \cup {k} |-> IF j = k THEN v ELSE d[j] ]
Get(d, k, default) == IF k \in DOMAIN d THEN d[k] ELSE default

\* ------------------------------------------------------------------------
\* utils.py: ActionBuffer
\* ------------------------------------------------------------------------
buffer_size == 30
\* is_action_stable: stability_ratio 0.8 as a fraction, and the 1.0 s of
\* continuous detection in ticks
STABILITY_RATIO_NUM == 8
STABILITY_RATIO_DEN == 10
MIN_DURATION == 4

NewActionBuffer ==
  [ buffers |-> EmptyDict, action_states |-> EmptyDict,
    action_start_times |-> EmptyDict, action_durations |-> EmptyDict ]

\* the list after append(detected) and the pop(0) that keeps buffer_size
AppendCapped(buf, detected) ==
  LET b == Append(buf, detected)
  IN  IF Len(b) > buffer_size THEN Tail(b) ELSE b

add_detection(ab, action, detected, t) ==
  LET ab1 == IF action \notin DOMAIN ab.buffers
             THEN [ buffers |-> Put(ab.buffers, action, << >>),
                    action_states |-> Put(ab.action_states, action, FALSE),
                    action_start_times |->
                      Put(ab.action_start_times, action, 0),
                    action_durations |-> Put(ab.action_durations, action, 0) ]
             ELSE ab
      ab2 == [ ab1 EXCEPT !.buffers[action] = AppendCapped(@, detected) ]
      start == ab2.action_start_times[action]
  IN  IF detected /\ start = 0
      THEN [ ab2 EXCEPT !.action_start_times[action] = t,
                        !.action_durations[action] = 0 ]
      ELSE IF detected /\ start > 0
      THEN [ ab2 EXCEPT !.action_durations[action] = t - start ]
      ELSE [ ab2 EXCEPT !.action_start_times[action] = 0,
                        !.action_durations[action] = 0 ]

\* sum(buffer) of a list of booleans
CountTrue(buf) == Cardinality({ i \in 1..Len(buf) : buf[i] })

is_action_stable_ratio_only(ab, action) ==
  /\ action \in DOMAIN ab.buffers
  /\ Len(ab.buffers[action]) >= buffer_size
  /\ STABILITY_RATIO_DEN * CountTrue(ab.buffers[action])
       >= STABILITY_RATIO_NUM * Len(ab.buffers[action])

is_action_stable(ab, action) ==
  IF action \notin DOMAIN ab.buffers THEN FALSE
  ELSE IF Len(ab.buffers[action]) < buffer_size THEN FALSE
  ELSE LET detected_count == CountTrue(ab.buffers[action])
           duration_stable ==
             Get(ab.action_durations, action, 0) >= MIN_DURATION
       IN  /\ STABILITY_RATIO_DEN * detected_count
                >= STABILITY_RATIO_NUM * Len(ab.buffers[action])
           /\ duration_stable

should_trigger_action_no_latch(ab, action) ==
  [ ret |-> is_action_stable(ab, action), ab |-> ab ]

\* returns the value returned (ret) and the buffer afterwards (ab)
should_trigger_action(ab, action) ==
  LET current_stable == is_action_stable(ab, action)
      previous_state == Get(ab.action_states, action, FALSE)
  IN  IF current_stable /\ ~previous_state
      THEN [ ret |-> TRUE,
             ab |-> [ ab EXCEPT !.action_states =
                                   Put(ab.action_states, action, TRUE) ] ]
      ELSE IF ~current_stable
      THEN [ ret |-> FALSE,
             ab |-> [ ab EXCEPT !.action_states =
                                   Put(ab.action_states, action, FALSE) ] ]
      ELSE [ ret |-> FALSE, ab |-> ab ]

reset_action(ab, action) ==
  IF action \in DOMAIN ab.buffers
  THEN [ ab EXCEPT !.buffers[action] = << >>,
                   !.action_states[action] = FALSE,
                   !.action_start_times[action] = 0,
                   !.action_durations[action] = 0 ]
  ELSE ab

reset_all_keeps_latch(ab) ==
  [ buffers |-> [ a \in DOMAIN ab.buffers |-> << >> ],
    action_states |-> ab.action_states,
    action_start_times |-> [ a \in DOMAIN ab.action_start_times |-> 0 ],
    action_durations |-> [ a \in DOMAIN ab.action_durations |-> 0 ] ]

reset_all(ab) ==
  [ buffers |-> [ a \in DOMAIN ab.buffers |-> << >> ],
    action_states |->
      [ a \in DOMAIN ab.action_states |->
          IF a \in DOMAIN ab.buffers THEN FALSE ELSE ab.action_states[a] ],
    action_start_times |-> [ a \in DOMAIN ab.action_start_times |-> 0 ],
    action_durations |-> [ a \in DOMAIN ab.action_durations |-> 0 ] ]

\* ------------------------------------------------------------------------
\* pose_detector.py: calibration checks
\* ------------------------------------------------------------------------
VISIBILITY_MIN == 500
FRAME_MARGIN_LOW == 50
FRAME_MARGIN_HIGH == 950
SHOULDER_WIDTH_CLOSE == 250
SHOULDER_WIDTH_FAR == 120

\* required_landmarks, in the order they are checked
RequiredLandmarks ==
  << "nose", "left_shoulder", "right_shoulder", "left_hip", "right_hip",
     "left_ankle", "right_ankle", "left_wrist", "right_wrist" >>

LandmarkFails(p) ==
  \/ p.visibility < VISIBILITY_MIN
  \/ p.x < FRAME_MARGIN_LOW \/ p.x > FRAME_MARGIN_HIGH
  \/ p.y < FRAME_MARGIN_LOW \/ p.y > FRAME_MARGIN_HIGH

_check_body_completeness(landmarks) ==
  LET failing == { i \in 1..Len(RequiredLandmarks) :
                     LandmarkFails(landmarks[RequiredLandmarks[i]]) }
  IN  IF failing = {}
      THEN [ complete |-> TRUE, prompt |-> NoPrompt, message |-> "complete" ]
      ELSE LET first == CHOOSE i \in failing : \A j \in failing : i <= j
               p == landmarks[RequiredLandmarks[first]]
           IN  [ complete |-> FALSE, prompt |-> BODY_NOT_COMPLETE,
                 message |-> IF p.visibility < VISIBILITY_MIN
                             THEN "part_missing" ELSE "out_of_frame" ]

_check_distance(landmarks) ==
  LET shoulder_width ==
        Abs(landmarks.left_shoulder.x - landmarks.right_shoulder.x)
  IN  IF shoulder_width > SHOULDER_WIDTH_CLOSE
      THEN [ prompt |-> DISTANCE_TOO_CLOSE, message |-> "too_close" ]
      ELSE IF shoulder_width < SHOULDER_WIDTH_FAR
      THEN [ prompt |-> DISTANCE_TOO_FAR, message |-> "too_far" ]
      ELSE [ prompt |-> NoPrompt, message |-> "distance_ok" ]

\* the torso offset compares two midpoints; both sides are doubled here
_is_standing_pose(landmarks) ==
  LET shoulder_diff ==
        Abs(landmarks.left_shoulder.y - landmarks.right_shoulder.y)
      hip_diff == Abs(landmarks.left_hip.y - landmarks.right_hip.y)
      torso_straight2 ==
        Abs((landmarks.left_shoulder.x + landmarks.right_shoulder.x)
            - (landmarks.left_hip.x + landmarks.right_hip.x))
  IN  /\ shoulder_diff < STABILITY_THRESHOLD
      /\ hip_diff < STABILITY_THRESHOLD
      /\ torso_straight2 < 2 * STABILITY_THRESHOLD

FeatureNames ==
  { "left_wrist", "right_wrist", "left_ankle", "right_ankle",
    "left_shoulder", "right_shoulder", "left_knee", "right_knee", "nose" }

_extract_pose_features(landmarks) ==
  [ name \in FeatureNames |->
      [ x |-> landmarks[name].x, y |-> landmarks[name].y,
        z |-> landmarks[name].z ] ]

\* baseline_pose = None
NoBaseline == [ k \in {} |-> 0 ]

\* ------------------------------------------------------------------------
\* pose_detector.py: the nine action checks against the baseline
\* ------------------------------------------------------------------------
ActualSide_unmirrored(side) == side

\* mirror correction: the user's left side is the raw right side
ActualSide(side) == IF side = "left" THEN "right" ELSE "left"
Key(side, joint) == IF side = "left" THEN "left_" \o joint
                    ELSE "right_" \o joint

_detect_hand_raise(baseline, current_features, side) ==
  IF baseline = NoBaseline THEN FALSE
  ELSE
    LET wrist_key == Key(ActualSide(side), "wrist")
        shoulder_key == Key(ActualSide(side), "shoulder")
    IN  IF wrist_key \notin DOMAIN current_features
           \/ shoulder_key \notin DOMAIN current_features
        THEN FALSE
        ELSE
          LET current_relative_height ==
                current_features[wrist_key].y - current_features[shoulder_key].y
              baseline_relative_height ==
                baseline[wrist_key].y - baseline[shoulder_key].y
              height_diff == baseline_relative_height - current_relative_height
          IN  height_diff > HAND_RAISE_THRESHOLD

_detect_foot_raise(baseline, current_features, side) ==
  IF baseline = NoBaseline THEN FALSE
  ELSE
    LET ankle_key == Key(ActualSide(side), "ankle")
    IN  IF ankle_key \notin DOMAIN current_features THEN FALSE
        ELSE baseline[ankle_key].y - current_features[ankle_key].y
               > FOOT_RAISE_THRESHOLD

\* knee_threshold is 0.7 of the foot threshold, times 0.8 again when the
\* foot of that side is raised; both sides of the comparison are times 100
_detect_knee_raise(baseline, current_features, side, foot_detected) ==
  IF baseline = NoBaseline THEN FALSE
  ELSE
    LET knee_key == Key(ActualSide(side), "knee")
        ankle_key == Key(ActualSide(side), "ankle")
    IN  IF knee_key \notin DOMAIN current_features
           \/ ankle_key \notin DOMAIN current_features
           \/ knee_key \notin DOMAIN baseline
           \/ ankle_key \notin DOMAIN baseline
        THEN FALSE
        ELSE
          LET current_knee_height ==
                current_features[knee_key].y - current_features[ankle_key].y
              baseline_knee_height ==
                baseline[knee_key].y - baseline[ankle_key].y
              height_diff == baseline_knee_height - current_knee_height
              knee_threshold100 ==
                IF foot_detected THEN FOOT_RAISE_THRESHOLD * 7 * 8
                ELSE FOOT_RAISE_THRESHOLD * 70
          IN  100 * height_diff > knee_threshold100

\* nose offset from the shoulder midpoint, doubled
NoseShift2(baseline, current_features) ==
  LET shoulder_center2 ==
        current_features.left_shoulder.x + current_features.right_shoulder.x
      current_nose_relative2 == 2 * current_features.nose.x - shoulder_center2
      baseline_nose_relative2 == 2 * baseline.nose.x - shoulder_center2
  IN  current_nose_relative2 - baseline_nose_relative2

HEAD_TURN_SHIFT == 20

_detect_head_turn(baseline, current_features, direction) ==
  IF baseline = NoBaseline \/ "nose" \notin DOMAIN current_features
  THEN FALSE
  ELSE IF direction = "left"
       THEN NoseShift2(baseline, current_features) < -(2 * HEAD_TURN_SHIFT)
       ELSE NoseShift2(baseline, current_features) > 2 * HEAD_TURN_SHIFT

_detect_both_hands_raise(baseline, current_features, left_hand_detected, right_hand_detected) ==
  IF baseline = NoBaseline THEN FALSE
  ELSE IF ~(left_hand_detected /\ right_hand_detected) THEN FALSE
  ELSE
    LET left_height ==
          current_features.left_shoulder.y - current_features.left_wrist.y
        right_height ==
          current_features.right_shoulder.y - current_features.right_wrist.y
        height_diff == Abs(left_height - right_height)
    IN  2 * height_diff < HAND_RAISE_THRESHOLD

\* actions_detected, in the order the dictionary is filled
DetectOrder ==
  << "left_hand", "right_hand", "left_foot", "right_foot", "turn_left_head",
     "turn_right_head", "left_knee", "right_knee", "both_hands" >>

ActionsDetected(baseline, cf) ==
  LET lh == _detect_hand_raise(baseline, cf, "left")
      rh == _detect_hand_raise(baseline, cf, "right")
      lf == _detect_foot_raise(baseline, cf, "left")
      rf == _detect_foot_raise(baseline, cf, "right")
  IN  [ left_hand |-> lh, right_hand |-> rh,
        left_foot |-> lf, right_foot |-> rf,
        turn_left_head |-> _detect_head_turn(baseline, cf, "left"),
        turn_right_head |-> _detect_head_turn(baseline, cf, "right"),
        left_knee |-> _detect_knee_raise(baseline, cf, "left", lf),
        right_knee |-> _detect_knee_raise(baseline, cf, "right", rf),
        both_hands |-> _detect_both_hands_raise(baseline, cf, lh, rh) ]

\* ------------------------------------------------------------------------
\* pose_detector.py: confidence scores (thousandths) and the accepted action
\* ------------------------------------------------------------------------
CONFIDENCE_BAR == 500
Clamp01(v) == Min(1000, Max(0, v))

_calculate_action_confidence(baseline, action, cf, all_actions) ==
  LET default == IF Get(all_actions, action, FALSE) THEN 500 ELSE 0
  IN
  IF baseline = NoBaseline THEN 0
  ELSE IF action = "both_hands"
  THEN IF Get(all_actions, "left_hand", FALSE)
          /\ Get(all_actions, "right_hand", FALSE)
       THEN LET left_height == cf.left_shoulder.y - cf.left_wrist.y
                right_height == cf.right_shoulder.y - cf.right_wrist.y
                height_diff == Abs(left_height - right_height)
                \* 1.0 - height_diff / 0.1
                consistency == Max(0, 1000 - 10 * height_diff)
            IN  Min(1000, consistency + 500)
       ELSE default
  ELSE IF action \in { "left_hand", "right_hand" }
  THEN LET side == IF action = "left_hand" THEN "left" ELSE "right"
           wrist_key == Key(ActualSide(side), "wrist")
           shoulder_key == Key(ActualSide(side), "shoulder")
       IN  IF wrist_key \in DOMAIN cf /\ shoulder_key \in DOMAIN cf
           THEN \* (shoulder.y - wrist.y) / 0.2
                Clamp01(5 * (cf[shoulder_key].y - cf[wrist_key].y))
           ELSE 0
  ELSE IF action \in { "left_foot", "right_foot" }
  THEN LET side == IF action = "left_foot" THEN "left" ELSE "right"
           ankle_key == Key(ActualSide(side), "ankle")
       IN  IF ankle_key \in DOMAIN cf /\ ankle_key \in DOMAIN baseline
           THEN \* (baseline_ankle.y - ankle.y) / 0.1
                Clamp01(10 * (baseline[ankle_key].y - cf[ankle_key].y))
           ELSE 0
  ELSE IF action \in { "left_knee", "right_knee" }
  THEN LET side == IF action = "left_knee" THEN "left" ELSE "right"
           knee_key == Key(ActualSide(side), "knee")
           ankle_key == Key(ActualSide(side), "ankle")
       IN  IF /\ knee_key \in DOMAIN cf /\ ankle_key \in DOMAIN cf
              /\ knee_key \in DOMAIN baseline /\ ankle_key \in DOMAIN baseline
           THEN LET current_height == cf[knee_key].y - cf[ankle_key].y
                    baseline_height ==
                      baseline[knee_key].y - baseline[ankle_key].y
                IN  \* (baseline_height - current_height) / 0.05
                    Clamp01(20 * (baseline_height - current_height))
           ELSE 0
  ELSE IF action \in { "turn_left_head", "turn_right_head" }
  THEN IF "nose" \in DOMAIN cf /\ "nose" \in DOMAIN baseline
       THEN \* abs(x_diff) / 0.05, x_diff being half of NoseShift2
            Clamp01(10 * Abs(NoseShift2(baseline, cf)))
       ELSE 0
  ELSE default

\* action_scores: the score of every action whose check is true
ActionScores(baseline, cf, actions_detected) ==
  [ a \in { b \in DOMAIN actions_detected : actions_detected[b] } |->
      _calculate_action_confidence(baseline, a, cf, actions_detected) ]

\* max(action_scores.keys(), key=...): the first key of the dictionary, in
\* insertion order, among those with the highest score
MostReliable(action_scores) ==
  LET best == { i \in 1..Len(DetectOrder) :
                  /\ DetectOrder[i] \in DOMAIN action_scores
                  /\ \A b \in DOMAIN action_scores :
                       action_scores[b] <= action_scores[DetectOrder[i]] }
  IN  DetectOrder[CHOOSE i \in best : \A j \in best : i <= j]

\* detected_actions as the list of its (action, detected) items in
\* insertion order
DetectedEntries(action_scores) ==
  IF DOMAIN action_scores # {}
  THEN LET most_reliable_action == MostReliable(action_scores)
       IN  IF action_scores[most_reliable_action] > CONFIDENCE_BAR
           THEN IF most_reliable_action = "both_hands"
                THEN << << "both_hands", TRUE >>, << "left_hand", TRUE >>,
                        << "right_hand", TRUE >> >>
                ELSE << << most_reliable_action, TRUE >> >>
           ELSE << >>
  ELSE [ i \in 1..Len(DetectOrder) |-> << DetectOrder[i], FALSE >> ]

RECURSIVE AddAll(_, _, _)
AddAll(ab, entries, t) ==
  IF entries = << >> THEN ab
  ELSE AddAll(add_detection(ab, Head(entries)[1], Head(entries)[2], t),
              Tail(entries), t)

AsDict(entries) ==
  [ a \in { entries[i][1] : i \in 1..Len(entries) } |->
      \E i \in 1..Len(entries) : entries[i][1] = a /\ entries[i][2] ]

\* returns detected_actions (as dict and as item list) and the action
\* buffer after the add_detection calls
_detect_actions(baseline, ab, landmarks, t) ==
  IF baseline = NoBaseline
  THEN [ detected_actions |-> EmptyDict, entries |-> << >>, ab |-> ab ]
  ELSE LET current_features == _extract_pose_features(landmarks)
           actions_detected == ActionsDetected(baseline, current_features)
           action_scores ==
             ActionScores(baseline, current_features, actions_detected)
           entries == DetectedEntries(action_scores)
       IN  [ detected_actions |-> AsDict(entries), entries |-> entries,
             ab |-> AddAll(ab, entries, t) ]

\* returns triggered_actions and the action buffer afterwards
RECURSIVE TriggerFrom(_, _, _)
TriggerFrom(i, ab, acc) ==
  IF i > Len(ActionKeyOrder) THEN [ triggered_actions |-> acc, ab |-> ab ]
  ELSE LET r == should_trigger_action(ab, ActionKeyOrder[i])
       IN  TriggerFrom(i + 1, r.ab,
                       IF r.ret THEN Append(acc, ActionKeyOrder[i]) ELSE acc)

get_triggered_actions(ab) == TriggerFrom(1, ab, << >>)

\* ------------------------------------------------------------------------
\* pose_detector.py: PoseDetector state, calibration and process_frame
\* ------------------------------------------------------------------------
\* the fields of PoseDetector that calibration and detection read or write
NewPoseDetector ==
  [ is_calibrated |-> FALSE,
    calibration_frames |-> 0,
    baseline_pose |-> NoBaseline,
    calibration_voice_played |->
      [ body_incomplete |-> FALSE, distance_issue |-> FALSE,
        calibration_success |-> FALSE ] ]

\* calibration_result as returned by _check_calibration
CalibrationResult(completed, voice_prompt, status_message) ==
  [ rich |-> TRUE, value |-> FALSE, completed |-> completed,
    voice_prompt |-> voice_prompt, status_message |-> status_message ]

\* detection_results['calibration_status'] when it is the plain boolean
LegacyStatus(b) ==
  [ rich |-> FALSE, value |-> b, completed |-> FALSE,
    voice_prompt |-> NoPrompt, status_message |-> "" ]

\* The four outcomes of _check_calibration; each returns the detector
\* afterwards (pd) and calibration_result (result).

BodyIncompleteFrame_always_prompts(pd, body_check) ==
  [ pd |-> [ pd EXCEPT !.calibration_voice_played.body_incomplete = TRUE,
                       !.calibration_frames = 0 ],
    result |-> CalibrationResult(FALSE, body_check.prompt,
                                 body_check.message) ]

\* the body is not completely in view
BodyIncompleteFrame(pd, body_check) ==
  [ pd |-> [ pd EXCEPT !.calibration_voice_played.body_incomplete = TRUE,
                       !.calibration_frames = 0 ],
    result |-> CalibrationResult(FALSE,
                 IF ~pd.calibration_voice_played.body_incomplete
                 THEN body_check.prompt ELSE NoPrompt,
                 body_check.message) ]

DistanceIssueFrame_always_prompts(pd, distance_check) ==
  [ pd |-> [ pd EXCEPT !.calibration_voice_played.distance_issue = TRUE,
                       !.calibration_frames = 0 ],
    result |-> CalibrationResult(FALSE, distance_check.prompt,
                                 distance_check.message) ]

\* too close to or too far from the camera
DistanceIssueFrame(pd, distance_check) ==
  [ pd |-> [ pd EXCEPT !.calibration_voice_played.distance_issue = TRUE,
                       !.calibration_frames = 0 ],
    result |-> CalibrationResult(FALSE,
                 IF ~pd.calibration_voice_played.distance_issue
                 THEN distance_check.prompt ELSE NoPrompt,
                 distance_check.message) ]

\* a stable standing pose: count it, and calibrate on the 15th in a row
StandingFrame(pd, landmarks) ==
  IF pd.calibration_frames + 1 >= CALIBRATION_FRAMES
  THEN [ pd |-> [ pd EXCEPT
                    !.calibration_frames = @ + 1,
                    !.baseline_pose = _extract_pose_features(landmarks),
                    !.is_calibrated = TRUE,
                    !.calibration_voice_played.calibration_success = TRUE ],
         result |-> CalibrationResult(TRUE,
                      IF ~pd.calibration_voice_played.calibration_success
                      THEN CALIBRATION_SUCCESS_CANTONESE ELSE NoPrompt,
                      "done") ]
  ELSE [ pd |-> [ pd EXCEPT !.calibration_frames = @ + 1 ],
         result |-> CalibrationResult(FALSE, NoPrompt, "progress") ]

UnstableFrame_keeps_count(pd) ==
  [ pd |-> pd, result |-> CalibrationResult(FALSE, NoPrompt, "unstable") ]

\* the pose is not a stable standing pose
UnstableFrame(pd) ==
  [ pd |-> [ pd EXCEPT !.calibration_frames = 0 ],
    result |-> CalibrationResult(FALSE, NoPrompt, "unstable") ]

_check_calibration(pd, landmarks) ==
  IF ~_check_body_completeness(landmarks).complete
  THEN BodyIncompleteFrame(pd, _check_body_completeness(landmarks))
  ELSE IF _check_distance(landmarks).prompt # NoPrompt
  THEN DistanceIssueFrame(pd, _check_distance(landmarks))
  ELSE IF _is_standing_pose(landmarks)
  THEN StandingFrame(pd, landmarks)
  ELSE UnstableFrame(pd)

process_frame_always_checks(pd, ab, f, t) ==
  IF f = NoPose
  THEN [ pd |-> pd, ab |-> ab, entries |-> << >>,
         results |-> [ pose_detected |-> FALSE, actions |-> EmptyDict,
                       calibration_status |->
                         LegacyStatus(pd.is_calibrated) ] ]
  ELSE LET c == _check_calibration(pd, FramePool[f])
       IN  [ pd |-> c.pd, ab |-> ab, entries |-> << >>,
             results |-> [ pose_detected |-> TRUE, actions |-> EmptyDict,
                           calibration_status |-> c.result ] ]

\* process_frame on a frame named f, at time t; returns the detector (pd),
\* the action buffer (ab), detection_results (results) and the items handed
\* to add_detection (entries)
process_frame(pd, ab, f, t) ==
  IF f = NoPose
  THEN [ pd |-> pd, ab |-> ab, entries |-> << >>,
         results |-> [ pose_detected |-> FALSE, actions |-> EmptyDict,
                       calibration_status |->
                         LegacyStatus(pd.is_calibrated) ] ]
  ELSE IF ~pd.is_calibrated
  THEN LET c == _check_calibration(pd, FramePool[f])
       IN  [ pd |-> c.pd, ab |-> ab, entries |-> << >>,
             results |-> [ pose_detected |-> TRUE, actions |-> EmptyDict,
                           calibration_status |-> c.result ] ]
  ELSE LET d == _detect_actions(pd.baseline_pose, ab, FramePool[f], t)
       IN  [ pd |-> pd, ab |-> d.ab, entries |-> d.entries,
             results |-> [ pose_detected |-> TRUE,
                           actions |-> d.detected_actions,
                           calibration_status |->
                             LegacyStatus(pd.is_calibrated) ] ]

reset_calibration(pd, ab) ==
  [ pd |-> [ is_calibrated |-> FALSE,
             calibration_frames |-> 0,
             baseline_pose |-> NoBaseline,
             calibration_voice_played |->
               [ k \in DOMAIN pd.calibration_voice_played |-> FALSE ] ],
    ab |-> reset_all(ab) ]

\* ------------------------------------------------------------------------
\* utils.py: KeyboardSimulator
\* ------------------------------------------------------------------------
\* key_cooldown = 0.5 s, in ticks
key_cooldown == 2

KeyboardLibs == { "keyboard", "pynput", "none" }

\* len(key) == 1 and key.isalnum(), for the keys the model presses
SingleAlnum == { "A", "B", "C", "D", "E", "F", "G", "1", "2" }

\* what reaches the operating system for one successful request
Injection(lib, key) ==
  IF lib = "keyboard"
  THEN [ key |-> key,
         via |-> IF key \in SingleAlnum THEN "write"
                 ELSE "press_and_release" ]
  ELSE IF lib = "pynput"
  THEN [ key |-> key,
         via |-> IF key \in SingleAlnum THEN "type" ELSE "press_release" ]
  ELSE [ key |-> key, via |-> "log_only" ]

press_key_restarts_cooldown(lkt, lib, key, t, raises) ==
  IF key \in DOMAIN lkt /\ t - lkt[key] < key_cooldown
  THEN [ ret |-> FALSE, last_key_time |-> Put(lkt, key, t),
         injected |-> << >> ]
  ELSE IF raises /\ lib # "none"
  THEN [ ret |-> FALSE, last_key_time |-> lkt, injected |-> << >> ]
  ELSE [ ret |-> TRUE, last_key_time |-> Put(lkt, key, t),
         injected |-> << Injection(lib, key) >> ]

\* press_key(key) at time t; raises says whether the injection library raises
\* an exception.  Returns the value returned (ret), last_key_time afterwards
\* and the injections made (at most one).
press_key(lkt, lib, key, t, raises) ==
  IF key \in DOMAIN lkt /\ t - lkt[key] < key_cooldown
  THEN [ ret |-> FALSE, last_key_time |-> lkt, injected |-> << >> ]
  ELSE IF raises /\ lib # "none"
  THEN [ ret |-> FALSE, last_key_time |-> lkt, injected |-> << >> ]
  ELSE [ ret |-> TRUE, last_key_time |-> Put(lkt, key, t),
         injected |-> << Injection(lib, key) >> ]

\* ------------------------------------------------------------------------
\* gui_app.py: PoseDetectionGUI.detection_worker and handle_action_triggered
\* ------------------------------------------------------------------------
\* Messages.get_success_message(action)
ACTION_SUCCESS(action) ==
  IF action \in DOMAIN ACTION_SUCCESS_PHRASES
  THEN ACTION_SUCCESS_PHRASES[action]
  ELSE "detected " \o action

NewGui ==
  [ last_action |-> "", last_key |-> "", voice_enabled |-> TRUE,
    action_enabled |-> [ a \in Actions |-> TRUE ] ]

handle_action_triggered_ignores_checkbox(st, action, lib, t, raises) ==
  LET key == get_action_key(action)
      p == press_key(st.last_key_time, lib, key, t, raises)
  IN  IF p.ret
      THEN [ gui |-> [ st.gui EXCEPT !.last_action = ACTION_SUCCESS(action),
                                     !.last_key = key ],
             last_key_time |-> p.last_key_time,
             injected |-> st.injected \o p.injected,
             requested |-> Append(st.requested, key),
             spoken |-> IF st.gui.voice_enabled
                        THEN Append(st.spoken, ACTION_SUCCESS(action))
                        ELSE st.spoken ]
      ELSE [ st EXCEPT !.requested = Append(@, key) ]

\* st holds what the handler touches: gui, last_key_time, injected, spoken,
\* and the keys press_key was called with (requested)
handle_action_triggered(st, action, lib, t, raises) ==
  IF ~st.gui.action_enabled[action] THEN st
  ELSE LET key == get_action_key(action)
           p == press_key(st.last_key_time, lib, key, t, raises)
       IN  IF p.ret
           THEN [ gui |-> [ st.gui EXCEPT !.last_action = ACTION_SUCCESS(action),
                                          !.last_key = key ],
                  last_key_time |-> p.last_key_time,
                  injected |-> st.injected \o p.injected,
                  requested |-> Append(st.requested, key),
                  spoken |-> IF st.gui.voice_enabled
                             THEN Append(st.spoken, ACTION_SUCCESS(action))
                             ELSE st.spoken ]
           ELSE [ st EXCEPT !.requested = Append(@, key) ]

RECURSIVE HandleAll(_, _, _, _, _)
HandleAll(st, actions, lib, t, raising) ==
  IF actions = << >> THEN st
  ELSE HandleAll(handle_action_triggered(st, Head(actions), lib, t,
                                         Head(actions) \in raising),
                 Tail(actions), lib, t, raising)

\* the speech request the worker makes for the calibration status of a frame
WorkerPrompt(status, calibrated_after, voice_enabled) ==
  IF status.rich
  THEN IF status.voice_prompt # NoPrompt /\ voice_enabled
       THEN << status.voice_prompt >> ELSE << >>
  ELSE IF status.value /\ ~calibrated_after /\ voice_enabled
       THEN << "CALIBRATION_SUCCESS" >> ELSE << >>

\* --- observation helpers ------------------------------------------------
IsStableFrame(f) ==
  /\ f # NoPose
  /\ _check_body_completeness(FramePool[f]).complete
  /\ _check_distance(FramePool[f]).prompt = NoPrompt
  /\ _is_standing_pose(FramePool[f])

PromptKind(prompt) ==
  IF prompt = BODY_NOT_COMPLETE THEN "body"
  ELSE IF prompt \in { DISTANCE_TOO_CLOSE, DISTANCE_TOO_FAR } THEN "distance"
  ELSE IF prompt = CALIBRATION_SUCCESS_CANTONESE THEN "success"
  ELSE "none"

NoPrompts == [ body |-> 0, distance |-> 0, success |-> 0 ]

CountPrompt(counts, status) ==
  LET k == PromptKind(status.voice_prompt)
  IN  IF status.rich /\ k # "none" THEN [ counts EXCEPT ![k] = @ + 1 ]
      ELSE counts

\* the kind of distance problem _check_calibration finds in frame f: none
\* when no pose was found or the body is incomplete, which is checked first
DistanceKind(f) ==
  IF f = NoPose THEN {}
  ELSE IF ~_check_body_completeness(FramePool[f]).complete THEN {}
  ELSE IF _check_distance(FramePool[f]).message = "too_close" THEN { "close" }
  ELSE IF _check_distance(FramePool[f]).message = "too_far" THEN { "far" }
  ELSE {}

KindPrompt(kinds) ==
  IF kinds = { "close" } THEN DISTANCE_TOO_CLOSE ELSE DISTANCE_TOO_FAR

\* the raw right wrist is dy higher relative to its shoulder than at
\* baseline and every other tracked joint is where it was at baseline
RightWristRaisedBy(baseline, f, dy) ==
  /\ f # NoPose
  /\ baseline # NoBaseline
  /\ LET cf == _extract_pose_features(FramePool[f])
     IN  /\ \A j \in FeatureNames \ { "right_wrist" } : cf[j] = baseline[j]
         /\ cf.right_wrist.x = baseline.right_wrist.x
         /\ (baseline.right_wrist.y - baseline.right_shoulder.y)
              - (cf.right_wrist.y - cf.right_shoulder.y) = dy

CountKey(log, key) == Cardinality({ i \in 1..Len(log) : log[i].key = key })

\* --- one iteration of the detection worker on frame f --------------------
\* The iteration is evaluated in stages, each stage receiving the values of
\* the stages before it: r from process_frame, g from get_triggered_actions,
\* h from the handle_action_triggered calls.
WorkerFinish(f, r, g, h) ==
  /\ pose_detector' = r.pd
  /\ action_buffer' = g.ab
  /\ last_key_time' = h.last_key_time
  /\ gui' = h.gui
  /\ injected' = h.injected
  /\ requested' = h.requested
  /\ spoken' = h.spoken
  /\ frame' = f
  /\ results' = r.results
  /\ added' = r.entries
  /\ triggered' = g.triggered_actions
  /\ stableRunAll' =
       IF pose_detector.is_calibrated THEN stableRunAll
       ELSE IF IsStableFrame(f)
       THEN Min(CALIBRATION_FRAMES, stableRunAll + 1) ELSE 0
  /\ stableRunSeen' =
       IF pose_detector.is_calibrated \/ f = NoPose THEN stableRunSeen
       ELSE IF IsStableFrame(f)
       THEN Min(CALIBRATION_FRAMES, stableRunSeen + 1) ELSE 0
  /\ promptCount' = CountPrompt(promptCount, r.results.calibration_status)
  /\ distanceSeen' = IF r.pd.is_calibrated THEN {}
                     ELSE distanceSeen \cup DistanceKind(f)
  /\ held' = IF /\ pose_detector.is_calibrated
                /\ RightWristRaisedBy(pose_detector.baseline_pose, f, 250)
             THEN [ n |-> Min(2, held.n + 1),
                    keys |-> held.keys + CountKey(h.injected, "A") ]
             ELSE [ n |-> 0, keys |-> 0 ]
  /\ UNCHANGED << now, KEYBOARD_LIB, resets >>

\* raising: the triggered actions whose key injection raises an exception
WorkerHandle(f, r, g) ==
  \E raising \in SUBSET { g.triggered_actions[i] :
                            i \in 1..Len(g.triggered_actions) } :
    /\ raising # {} => KEYBOARD_LIB # "none"
    /\ WorkerFinish(f, r, g,
         HandleAll([ gui |-> gui, last_key_time |-> last_key_time,
                     injected |-> << >>, requested |-> << >>,
                     spoken |-> WorkerPrompt(r.results.calibration_status,
                                             r.pd.is_calibrated,
                                             gui.voice_enabled) ],
                   g.triggered_actions, KEYBOARD_LIB, now, raising))

WorkerTrigger(f, r) ==
  WorkerHandle(f, r,
    IF r.pd.is_calibrated THEN get_triggered_actions(r.ab)
    ELSE [ triggered_actions |-> << >>, ab |-> r.ab ])

DetectionWorker(f) ==
  WorkerTrigger(f, process_frame(pose_detector, action_buffer, f, now))

\* the camera delivers frame f; the exploration limits how often the pose
\* changes during calibration and how many frames are tracked afterwards
CameraFrame(f) ==
  LET tracking == pose_detector.is_calibrated
      changed == frame # "start" /\ f # frame
  IN  /\ changed /\ ~tracking => poseChanges < MaxPoseChanges
      /\ tracking => tracked < MaxTracked
      /\ poseChanges' = IF changed /\ ~tracking THEN poseChanges + 1
                        ELSE poseChanges
      /\ tracked' = IF tracking THEN tracked + 1 ELSE tracked

ResetCalibration ==
  LET r == reset_calibration(pose_detector, action_buffer)
  IN  /\ resets < MaxResets
      /\ pose_detector' = r.pd
      /\ action_buffer' = r.ab
      /\ resets' = resets + 1
      /\ poseChanges' = 0
      /\ tracked' = 0
      /\ stableRunAll' = 0
      /\ stableRunSeen' = 0
      /\ promptCount' = NoPrompts
      /\ held' = [ n |-> 0, keys |-> 0 ]
      /\ distanceSeen' = {}
      /\ UNCHANGED << now, KEYBOARD_LIB, last_key_time, gui, frame, results,
                      added, triggered, injected, requested, spoken >>

\* time passes, up to a last instant
Tick(last) ==
  /\ now < last
  /\ now' = now + 1

\* --- the callers of ActionBuffer ------------------------------------------
\* the actions whose buffers are exercised call by call
BufActions == { "left_hand" }

\* a raw check changes its value after a run of equal results of one of
\* these lengths (a run that fills the whole window counts as 30)
RunLengths == { 1, 7, 30 }

NoBufCall ==
  [ op |-> "none", action |-> "", ret |-> FALSE, stable |-> FALSE,
    prevStable |-> FALSE, refire |-> FALSE, sawFalse |-> FALSE,
    sawUnstable |-> FALSE, sawDrop |-> FALSE, fresh |-> FALSE ]

\* the last n elements of a sequence
LastN(seq, n) ==
  IF Len(seq) <= n THEN seq ELSE SubSeq(seq, Len(seq) - n + 1, Len(seq))

\* the number of equal elements at the end of a sequence
TrailingRun(seq) ==
  IF seq = << >> THEN 0
  ELSE Len(seq) -
       Max(0, CHOOSE i \in 0..Len(seq) :
                /\ i > 0 => seq[i] # seq[Len(seq)]
                /\ \A j \in (i + 1)..Len(seq) : seq[j] = seq[Len(seq)])

\* the fraction of true detections in a window is below stability_ratio
RatioBelow(w) ==
  STABILITY_RATIO_DEN * CountTrue(w) < STABILITY_RATIO_NUM * Len(w)

\* one add_detection(action, detected) call
BufAdd(a, d) ==
  LET prev == Get(window, a, << >>)
      w == LastN(Append(prev, d), buffer_size)
      changes == prev # << >> /\ prev[Len(prev)] # d
      since == Get(fired, a, FALSE)
  IN  /\ changes => /\ switches < MaxSwitches
                    /\ TrailingRun(prev) \in RunLengths
      /\ action_buffer' = add_detection(action_buffer, a, d, now)
      /\ window' = Put(window, a, w)
      /\ recorded' = Put(recorded, a, Min(Get(recorded, a, 0) + 1, buffer_size))
      /\ runStart' = Put(runStart, a,
                         IF ~d THEN 0
                         ELSE IF Get(runStart, a, 0) = 0 THEN now
                         ELSE runStart[a])
      /\ runLast' = Put(runLast, a, IF d THEN now ELSE 0)
      /\ switches' = IF changes THEN switches + 1 ELSE switches
      /\ falseSinceFire' =
           Put(falseSinceFire, a, since /\ (Get(falseSinceFire, a, FALSE) \/ ~d))
      /\ dropSinceFire' =
           Put(dropSinceFire, a,
               since /\ (Get(dropSinceFire, a, FALSE) \/ RatioBelow(w)))
      /\ bufCall' = [ NoBufCall EXCEPT !.op = "add_detection", !.action = a ]
      /\ streakAfterFire' =
           Put(streakAfterFire, a,
               d /\ IF Get(runStart, a, 0) = 0 THEN since
                    ELSE Get(streakAfterFire, a, FALSE))
      /\ UNCHANGED << prevCallStable, fired, unstableSinceFire >>

\* one should_trigger_action(action) call
BufTrigger(a) ==
  LET r == should_trigger_action(action_buffer, a)
      st == is_action_stable(action_buffer, a)
  IN  /\ action_buffer' = r.ab
      /\ bufCall' =
           [ op |-> "should_trigger_action", action |-> a, ret |-> r.ret,
             stable |-> st,
             prevStable |-> Get(prevCallStable, a, FALSE),
             refire |-> Get(fired, a, FALSE),
             sawFalse |-> Get(falseSinceFire, a, FALSE),
             sawUnstable |-> Get(unstableSinceFire, a, FALSE),
             sawDrop |-> Get(dropSinceFire, a, FALSE),
             fresh |-> /\ Get(streakAfterFire, a, FALSE)
                       /\ Get(runLast, a, 0) - Get(runStart, a, 0)
                            >= MIN_DURATION ]
      /\ prevCallStable' = Put(prevCallStable, a, st)
      /\ fired' = Put(fired, a, Get(fired, a, FALSE) \/ r.ret)
      /\ streakAfterFire' =
           IF r.ret THEN Put(streakAfterFire, a, FALSE) ELSE streakAfterFire
      /\ falseSinceFire' =
           IF r.ret THEN Put(falseSinceFire, a, FALSE) ELSE falseSinceFire
      /\ dropSinceFire' =
           IF r.ret THEN Put(dropSinceFire, a, FALSE) ELSE dropSinceFire
      /\ unstableSinceFire' =
           Put(unstableSinceFire, a,
               ~r.ret /\ (Get(unstableSinceFire, a, FALSE) \/ ~st))
      /\ UNCHANGED << window, recorded, runStart, runLast, switches >>

\* --- the callers of KeyboardSimulator.press_key ----------------------------
\* the keys requested: two catalog keys and one that is not a single character
KeyPool == { "A", "B", "space" }

NoKeyCall ==
  [ key |-> "", ret |-> FALSE, raised |-> FALSE, t |-> 0,
    injected |-> << >>, recent |-> FALSE, prevSuccess |-> 0,
    afterReject |-> FALSE, rejected |-> EmptyDict ]

\* one press_key(key) request
PressKey(key, raises) ==
  LET r == press_key(last_key_time, KEYBOARD_LIB, key, now, raises)
      recent == /\ key \in DOMAIN successLog
                /\ now - successLog[key] < key_cooldown
      raised == raises /\ KEYBOARD_LIB # "none"
  IN  /\ presses < MaxPresses
      /\ last_key_time' = r.last_key_time
      /\ keyCall' =
           [ key |-> key, ret |-> r.ret, raised |-> raised, t |-> now,
             injected |-> r.injected, recent |-> recent,
             prevSuccess |-> Get(successLog, key, 0),
             afterReject |-> Get(keyCall.rejected, key, FALSE),
             rejected |-> IF r.ret THEN Put(keyCall.rejected, key, FALSE)
                          ELSE IF recent THEN Put(keyCall.rejected, key, TRUE)
                          ELSE keyCall.rejected ]
      /\ successLog' = IF r.ret THEN Put(successLog, key, now) ELSE successLog
      /\ presses' = presses + 1
      /\ UNCHANGED KEYBOARD_LIB

\* --- the callers of _detect_hand_raise --------------------------------------
HandWristYs == { 240, 300, 340, 360, 400, 500 }
HandShoulderYs == { 260, 300 }

\* the baselines a calibration can leave, and no baseline at all
HandBaselines ==
  { NoBaseline, _extract_pose_features(Stand),
    _extract_pose_features(StandHigh) }

\* current features: the standing pose with wrists and shoulders moved
HandCurrent(rw, rs, lw, ls) ==
  [ _extract_pose_features(Stand) EXCEPT
      !.right_wrist.y = rw, !.right_shoulder.y = rs,
      !.left_wrist.y = lw, !.left_shoulder.y = ls ]

HandInputs ==
  { [ baseline |-> b, current |-> HandCurrent(rw, rs, lw, ls) ] :
      b \in HandBaselines, rw \in HandWristYs, rs \in HandShoulderYs,
      lw \in HandWristYs, ls \in HandShoulderYs }

NoHandResult == [ side |-> "none", ret |-> FALSE ]

CheckHand(side) ==
  /\ handOut' = [ side |-> side,
                  ret |-> _detect_hand_raise(handIn.baseline,
                                             handIn.current, side) ]
  /\ UNCHANGED handIn

\* ------------------------------------------------------------------------
\* audio_manager.py: AudioManager (speech backend A)
\* ------------------------------------------------------------------------
Priorities == { 0, 1, 2 }

NewAudioManager(initialized) ==
  [ is_initialized |-> initialized, is_muted |-> FALSE,
    voice_queue |-> << >>, is_playing |-> FALSE ]

\* list.insert keeping the order of equal priorities: x goes after every
\* item whose priority is not larger
InsertByPriority(sorted, x) ==
  LET k == Cardinality({ i \in 1..Len(sorted) :
                           sorted[i].priority <= x.priority })
  IN  SubSeq(sorted, 1, k) \o << x >> \o SubSeq(sorted, k + 1, Len(sorted))

RECURSIVE SortFrom(_, _, _)
SortFrom(q, i, acc) ==
  IF i > Len(q) THEN acc
  ELSE SortFrom(q, i + 1, InsertByPriority(acc, q[i]))

SortByPriority_unsorted(q) == q

\* voice_queue.sort(key=lambda x: x['priority']): a stable sort
SortByPriority(q) == SortFrom(q, 1, << >>)

CallerIdle == [ pc |-> "idle", saved |-> << >>, calls |-> 0, enqueued |-> 0,
                sorted |-> 0, mutes |-> 0 ]

\* play_text(text, priority) up to voice_queue.append; file_ok says whether
\* _generate_audio_file returns a path
PlayTextCall(priority, file_ok) ==
  /\ caller.pc = "idle"
  /\ caller.calls < MaxPlays
  /\ IF audio.is_muted \/ ~audio.is_initialized \/ ~file_ok
     THEN /\ caller' = [ caller EXCEPT !.calls = @ + 1 ]
          /\ UNCHANGED audio
     ELSE /\ audio' = [ audio EXCEPT !.voice_queue =
                          Append(@, [ priority |-> priority,
                                      seq |-> caller.enqueued + 1 ]) ]
          /\ caller' = [ caller EXCEPT !.pc = "sort", !.calls = @ + 1,
                                       !.enqueued = @ + 1 ]
  /\ UNCHANGED << play_thread, played, mutedAtStart >>

\* list.sort begins: while the keys are computed and the items are ordered
\* the list object is empty for every other thread
SortBegin ==
  /\ caller.pc = "sort"
  /\ caller' = [ caller EXCEPT !.pc = "sorting", !.saved = audio.voice_queue ]
  /\ audio' = [ audio EXCEPT !.voice_queue = << >> ]
  /\ UNCHANGED << play_thread, played, mutedAtStart >>

\* list.sort ends: the ordered items are put back
SortEnd ==
  /\ caller.pc = "sorting"
  /\ audio' = [ audio EXCEPT !.voice_queue = SortByPriority(caller.saved) ]
  /\ caller' = [ caller EXCEPT !.pc = "start", !.saved = << >>,
                               !.sorted = caller.enqueued ]
  /\ UNCHANGED << play_thread, played, mutedAtStart >>

\* the end of play_text: if not is_playing, _start_playback_thread, which
\* does nothing while the previous thread is alive
StartPlayback ==
  /\ caller.pc = "start"
  /\ caller' = [ caller EXCEPT !.pc = "idle" ]
  /\ play_thread' = IF ~audio.is_playing /\ play_thread = "none"
                    THEN "begin" ELSE play_thread
  /\ UNCHANGED << audio, played, mutedAtStart >>

\* set_mute(muted), with stop_all_playback clearing the queue
SetMute(muted) ==
  /\ caller.pc = "idle"
  /\ caller.mutes < MaxMutes
  /\ caller' = [ caller EXCEPT !.mutes = @ + 1 ]
  /\ audio' = [ audio EXCEPT !.is_muted = muted,
                             !.voice_queue = IF muted THEN << >> ELSE @ ]
  /\ UNCHANGED << play_thread, played, mutedAtStart >>

\* _playback_worker: is_playing = True
WorkerBegin ==
  /\ play_thread = "begin"
  /\ audio' = [ audio EXCEPT !.is_playing = TRUE ]
  /\ play_thread' = "loop"
  /\ UNCHANGED << caller, played, mutedAtStart >>

\* the loop test: while self.voice_queue and not self.is_muted
WorkerTest ==
  /\ play_thread = "loop"
  /\ play_thread' = IF audio.voice_queue # << >> /\ ~audio.is_muted
                    THEN "pop" ELSE "exit"
  /\ UNCHANGED << audio, caller, played, mutedAtStart >>

\* voice_queue.pop(0), the clip being recorded as the next one played;
\* popping from a list that has become empty raises IndexError, which the
\* loop body catches
WorkerPop ==
  /\ play_thread = "pop"
  /\ IF audio.voice_queue = << >>
     THEN /\ play_thread' = "loop"
          /\ UNCHANGED << audio, played, mutedAtStart >>
     ELSE /\ play_thread' = "popped"
          /\ audio' = [ audio EXCEPT !.voice_queue = Tail(@) ]
          /\ played' = Append(played,
                         [ priority |-> audio.voice_queue[1].priority,
                           seq |-> audio.voice_queue[1].seq,
                           sorted |-> caller.sorted ])
  /\ UNCHANGED << caller, mutedAtStart >>

\* _play_audio_file(audio_item['file']): the statement after the pop loads
\* the file and starts the clip, without looking at is_muted
WorkerStartClip ==
  /\ play_thread = "popped"
  /\ play_thread' = "playing"
  /\ mutedAtStart' = mutedAtStart \cup { audio.is_muted }
  /\ UNCHANGED << audio, caller, played >>

\* the clip has been played and the 0.5 s pause is over
WorkerPlayed ==
  /\ play_thread = "playing"
  /\ play_thread' = "loop"
  /\ UNCHANGED << audio, caller, played, mutedAtStart >>

\* after the loop: is_playing = False
WorkerExit ==
  /\ play_thread = "exit"
  /\ audio' = [ audio EXCEPT !.is_playing = FALSE ]
  /\ play_thread' = "ending"
  /\ UNCHANGED << caller, played, mutedAtStart >>

\* the thread ends: is_alive() is false from now on
WorkerEnd ==
  /\ play_thread = "ending"
  /\ play_thread' = "none"
  /\ UNCHANGED << audio, caller, played, mutedAtStart >>


\* ------------------------------------------------------------------------
\* audio_manager.py, audio_manager_cantonese_fixed.py: the cache of
\* synthesized audio files
\* ------------------------------------------------------------------------
\* the texts handed to _generate_audio_file in this model
Texts == { "a", "b", "ab" }

\* hashlib.md5(text.encode('utf-8')).hexdigest()[:8]
text_hash(text) ==
  CASE text = "a" -> "0cc175b9"
    [] text = "b" -> "92eb5ffe"
    [] text = "ab" -> "187ef443"

\* SystemConfig.SOUND_DIR / "voice_<hash>" . SystemConfig.SOUND_FORMAT
get_sound_file_path(filename) == "sounds/" \o filename \o ".mp3"

NoPath == "None"

\* what tts.save can do: write the file, raise before anything is written,
\* or raise after the file was created
SaveOutcomes == { "saved", "error", "error_file_left" }

_generate_audio_file_always_synthesizes(files, text, gtts, save) ==
  LET filepath == get_sound_file_path("voice_" \o text_hash(text))
  IN  IF ~gtts THEN [ ret |-> NoPath, files |-> files, requests |-> 0 ]
      ELSE [ ret |-> IF save = "saved" THEN filepath ELSE NoPath,
             files |-> IF save = "error" THEN files
                       ELSE files \cup { filepath },
             requests |-> 1 ]

\* _generate_audio_file(text) with the sound directory holding files; gtts
\* is GTTS_AVAILABLE and save is what tts.save does if it is reached.
\* Returns the path (ret), the directory afterwards (files) and the number
\* of synthesis requests made (requests)
_generate_audio_file(files, text, gtts, save) ==
  LET filepath == get_sound_file_path("voice_" \o text_hash(text))
  IN  IF ~gtts THEN [ ret |-> NoPath, files |-> files, requests |-> 0 ]
      ELSE IF filepath \in files
      THEN [ ret |-> filepath, files |-> files, requests |-> 0 ]
      ELSE [ ret |-> IF save = "saved" THEN filepath ELSE NoPath,
             files |-> IF save = "error" THEN files
                       ELSE files \cup { filepath },
             requests |-> 1 ]

NoGenCall ==
  [ text |-> "", ret |-> NoPath, existed |-> FALSE, requests |-> 0,
    earlier |-> {} ]

\* one call of _generate_audio_file. made holds, per text, the files that
\* calls for it created; existed tells whether one of them was in the
\* directory when this call began; earlier holds the paths that calls for
\* the same text returned before
GenerateAudioFile(text, save) ==
  LET g == _generate_audio_file(sound_files, text, GTTS_AVAILABLE, save)
  IN  /\ genCalls < MaxGenCalls
      /\ genCalls' = genCalls + 1
      /\ sound_files' = g.files
      /\ synth_requests' = [ synth_requests EXCEPT ![text] = @ + g.requests ]
      /\ made' = [ made EXCEPT ![text] = @ \cup (g.files \ sound_files) ]
      /\ returned' = IF g.ret = NoPath THEN returned
                     ELSE [ returned EXCEPT ![text] = @ \cup { g.ret } ]
      /\ genCall' = [ text |-> text, ret |-> g.ret,
                      existed |-> made[text] \cap sound_files # {},
                      requests |-> g.requests, earlier |-> returned[text] ]
      /\ UNCHANGED GTTS_AVAILABLE

\* somebody removes a file from the sound directory
RemoveSoundFile(path) ==
  /\ path \in sound_files
  /\ sound_files' = sound_files \ { path }
  /\ UNCHANGED << GTTS_AVAILABLE, synth_requests, made, returned, genCall,
                  genCalls >>

\* ------------------------------------------------------------------------
\* audio_manager_cantonese.py (backend B), audio_manager_cantonese_fixed.py
\* (backend C), pyttsx_audio_manager.py (backend D): threads calling the
\* manager built on the local speech engine (use_local_voice is true)
\* ------------------------------------------------------------------------
Backends == { "B", "C", "D" }

\* the GUI thread and the detection worker call the manager
Callers == { "gui", "det" }
\* the thread that speak of backend D starts for a caller
SpeakThread(t) == t \o "_speak"
ThreadIds == Callers \cup { SpeakThread(t) : t \in Callers } \cup { "worker" }

SpeechTexts == { "a", "b" }
ControlOps == { "set_volume", "set_rate", "stop", "cleanup" }
STOP_SIGNAL == "None"

\* where a thread is inside the manager: pc "lock" waits for _engine_lock,
\* "create", "run" and "control" are operations on the engine handle
EnginePcs == { "create", "run", "control" }
IdleThread == [ pc |-> "idle", op |-> "", text |-> "", ret |-> "", busy |-> FALSE ]

NewSpeechManager ==
  [ is_enabled |-> TRUE, is_speaking |-> FALSE, engine |-> TRUE ]

NoRoute == [ blocking |-> FALSE, reset |-> FALSE, raced |-> FALSE ]

Returned(t, op, text, ret, busy) ==
  [ pc |-> "idle", op |-> op, text |-> text, ret |-> ret, busy |-> busy ]

\* a speak request of another thread that passed its checks and has not
\* returned
SpeakInFlight(t) ==
  \E u \in ThreadIds \ { t } :
    thr[u].op = "speak" /\ thr[u].pc \in { "checked", "lock", "start" } \cup EnginePcs

SpeakCall_ignores_is_speaking(t, text) ==
  /\ thr[t].pc = "idle" /\ apiCalls < MaxApiCalls
  /\ apiCalls' = apiCalls + 1
  /\ backend = "D" /\ thr[SpeakThread(t)].pc = "idle"
  /\ thr' = [ thr EXCEPT ![t] =
                [ pc |-> "checked", op |-> "speak", text |-> text,
                  ret |-> "", busy |-> SpeakInFlight(t) ] ]
  /\ UNCHANGED << backend, tts, engine_lock, speech_queue, route >>

\* speak(text) up to the point where the request is refused, queued, or
\* has passed the is_speaking check
SpeakCall(t, text) ==
  /\ thr[t].pc = "idle" /\ apiCalls < MaxApiCalls
  /\ apiCalls' = apiCalls + 1
  /\ CASE backend = "B" ->
            /\ speech_queue' = IF tts.is_enabled
                               THEN Append(speech_queue, text)
                               ELSE speech_queue
            /\ thr' = [ thr EXCEPT ![t] =
                 Returned(t, "speak", text,
                          IF tts.is_enabled THEN "true" ELSE "false", FALSE) ]
            /\ UNCHANGED route
       [] backend = "C" ->
            /\ thr' = [ thr EXCEPT ![t] =
                 IF ~tts.is_enabled \/ tts.is_speaking
                 THEN Returned(t, "speak", text, "false", SpeakInFlight(t))
                 ELSE [ pc |-> "lock", op |-> "speak", text |-> text,
                        ret |-> "", busy |-> SpeakInFlight(t) ] ]
            /\ UNCHANGED << speech_queue, route >>
       [] backend = "D" ->
            /\ thr[SpeakThread(t)].pc = "idle"
            /\ thr' = [ thr EXCEPT ![t] =
                 IF ~tts.is_enabled \/ ~tts.engine \/ tts.is_speaking
                 THEN Returned(t, "speak", text, "false", SpeakInFlight(t))
                 ELSE [ pc |-> "checked", op |-> "speak", text |-> text,
                        ret |-> "", busy |-> SpeakInFlight(t) ] ]
            /\ route' = IF /\ tts.is_enabled /\ tts.engine /\ ~tts.is_speaking
                           /\ \E u \in Callers \ { t } : thr[u].pc = "checked"
                        THEN [ route EXCEPT !.raced = TRUE ] ELSE route
            /\ UNCHANGED speech_queue
  /\ UNCHANGED << backend, tts, engine_lock >>

\* backend D, speak after the check: set is_speaking and start speak_thread
SpeakStart(t) ==
  /\ backend = "D" /\ thr[t].pc = "checked"
  /\ tts' = [ tts EXCEPT !.is_speaking = TRUE ]
  /\ thr' = [ thr EXCEPT
                ![t] = Returned(t, "speak", thr[t].text, "true", thr[t].busy),
                ![SpeakThread(t)] =
                  [ pc |-> "start", op |-> "speak", text |-> thr[t].text,
                    ret |-> "", busy |-> thr[t].busy ] ]
  /\ UNCHANGED << backend, engine_lock, speech_queue, apiCalls, route >>

\* speak_blocking(text) up to the engine lock (B, C) or the engine (D)
SpeakBlockingCall(t, text) ==
  /\ thr[t].pc = "idle" /\ apiCalls < MaxApiCalls
  /\ apiCalls' = apiCalls + 1
  /\ thr' = [ thr EXCEPT ![t] =
       IF ~tts.is_enabled \/ (backend = "D" /\ ~tts.engine)
       THEN Returned(t, "speak_blocking", text, "false", FALSE)
       ELSE [ pc |-> IF backend = "D" THEN "start" ELSE "lock",
              op |-> "speak_blocking", text |-> text, ret |-> "",
              busy |-> FALSE ] ]
  /\ route' = IF backend = "D" /\ tts.is_enabled /\ tts.engine
              THEN [ route EXCEPT !.blocking = TRUE ] ELSE route
  /\ UNCHANGED << backend, tts, engine_lock, speech_queue >>

\* set_volume, set_rate, stop or cleanup up to the engine lock (B, C) or
\* the engine (D)
ControlCall(t, op) ==
  /\ thr[t].pc = "idle" /\ apiCalls < MaxApiCalls
  /\ apiCalls' = apiCalls + 1
  /\ thr' = [ thr EXCEPT ![t] =
       [ pc |-> IF backend = "D" THEN "control" ELSE "lock",
         op |-> op, text |-> "", ret |-> "", busy |-> FALSE ] ]
  /\ UNCHANGED << backend, tts, engine_lock, speech_queue, route >>

\* backend B, _speech_worker: take the next text from the queue
WorkerGet ==
  /\ backend = "B" /\ thr["worker"].pc = "idle" /\ speech_queue # << >>
  /\ speech_queue' = Tail(speech_queue)
  /\ thr' = [ thr EXCEPT !["worker"] =
       IF Head(speech_queue) = STOP_SIGNAL
       THEN [ pc |-> "ended", op |-> "worker", text |-> "", ret |-> "",
              busy |-> FALSE ]
       ELSE [ pc |-> "lock", op |-> "worker", text |-> Head(speech_queue),
              ret |-> "", busy |-> FALSE ] ]
  /\ UNCHANGED << backend, tts, engine_lock, apiCalls, route >>

AcquireLock_ignores_owner(t) ==
  /\ thr[t].pc = "lock"
  /\ engine_lock' = t
  /\ thr' = [ thr EXCEPT ![t].pc =
                IF thr[t].op \in ControlOps \cup { "cleanup_engine" }
                THEN "control" ELSE "create" ]
  /\ UNCHANGED << backend, tts, speech_queue, apiCalls, route >>

\* with self._engine_lock: a Lock in backend B, an RLock in backend C
AcquireLock(t) ==
  /\ thr[t].pc = "lock"
  /\ engine_lock = "none" \/ (backend = "C" /\ engine_lock = t)
  /\ engine_lock' = t
  /\ thr' = [ thr EXCEPT ![t].pc =
                IF thr[t].op \in ControlOps \cup { "cleanup_engine" }
                THEN "control" ELSE "create" ]
  /\ UNCHANGED << backend, tts, speech_queue, apiCalls, route >>

\* the lock after thread t leaves its with-block
Released(t) == IF engine_lock = t THEN "none" ELSE engine_lock

\* B, C: the engine is created anew (ok tells whether pyttsx3.init
\* succeeds) and say(text) is called; D: say(text) on the shared engine
SayText(t, ok) ==
  /\ \/ backend \in { "B", "C" } /\ thr[t].pc = "create"
     \/ backend = "D" /\ thr[t].pc = "start" /\ ok = tts.engine
  /\ IF ok
     THEN /\ tts' = [ tts EXCEPT !.engine = TRUE,
                        !.is_speaking = IF backend = "C" THEN TRUE ELSE @ ]
          /\ thr' = [ thr EXCEPT ![t].pc = "run" ]
          /\ UNCHANGED engine_lock
     ELSE /\ tts' = [ tts EXCEPT
                        !.engine = IF backend = "D" THEN @ ELSE FALSE,
                        !.is_speaking =
                          IF backend = "D" /\ thr[t].op = "speak"
                          THEN FALSE ELSE @ ]
          /\ engine_lock' = Released(t)
          /\ thr' = [ thr EXCEPT ![t] =
               IF t \in Callers
               THEN Returned(t, thr[t].op, thr[t].text, "false", thr[t].busy)
               ELSE IdleThread ]
  /\ UNCHANGED << backend, speech_queue, apiCalls, route >>

\* runAndWait returns (ok) or raises
RunAndWaitDone(t, ok) ==
  /\ thr[t].pc = "run"
  /\ tts' = [ tts EXCEPT !.is_speaking =
                IF backend = "C" \/ (backend = "D" /\ thr[t].op = "speak")
                THEN FALSE ELSE @ ]
  /\ engine_lock' = Released(t)
  /\ thr' = [ thr EXCEPT ![t] =
       IF t \in Callers
       THEN Returned(t, thr[t].op, thr[t].text,
                     IF ok THEN "true" ELSE "false", thr[t].busy)
       ELSE IdleThread ]
  /\ UNCHANGED << backend, speech_queue, apiCalls, route >>

\* the body of set_volume, set_rate, stop or cleanup on the engine handle
EngineControl(t) ==
  /\ thr[t].pc = "control"
  /\ LET op == thr[t].op
         stops == op \in { "stop", "cleanup", "cleanup_engine" }
     IN  /\ tts' = [ tts EXCEPT
                 !.is_speaking =
                   IF stops /\ (tts.engine \/ backend = "D"
                                \/ op = "cleanup_engine")
                   THEN FALSE ELSE @,
                 !.engine =
                   IF op = "cleanup_engine" \/ (op = "cleanup" /\ backend = "D")
                   THEN FALSE ELSE @ ]
         /\ engine_lock' = Released(t)
         /\ speech_queue' =
              IF backend = "B" /\ op = "stop" THEN << >>
              ELSE IF backend = "B" /\ op = "cleanup"
              THEN << STOP_SIGNAL >> ELSE speech_queue
         /\ thr' = [ thr EXCEPT ![t] =
              IF op = "cleanup" /\ backend # "D"
              THEN [ pc |-> "lock", op |-> "cleanup_engine", text |-> "",
                     ret |-> "", busy |-> FALSE ]
              ELSE Returned(t, op, "", "", FALSE) ]
         /\ route' = IF /\ backend = "D" /\ stops
                        /\ \E u \in ThreadIds \ { t } : thr[u].pc # "idle"
                     THEN [ route EXCEPT !.reset = TRUE ] ELSE route
  /\ UNCHANGED << backend, apiCalls >>

\* ------------------------------------------------------------------------
\* Sessions that run long: the camera first delivers a script of frames
\* ------------------------------------------------------------------------
Repeat(f, n) == [ i \in 1..n |-> f ]

\* nothing; a hidden body, a body too close and 14 stable frames, one short
\* of calibration; 15 stable frames; 15 stable frames and the right wrist
\* up for 29 frames, one short of a full history
SessionScripts ==
  { << >>,
    << "Hidden", "TooClose" >> \o Repeat("Stand", CALIBRATION_FRAMES - 1),
    Repeat("Stand", CALIBRATION_FRAMES),
    Repeat("Stand", CALIBRATION_FRAMES)
      \o Repeat("RaiseRFull", buffer_size - 1) }

\* the camera delivers the next frame of the script
ScriptFrame ==
  /\ script # << >>
  /\ script' = Tail(script)
  /\ UNCHANGED << poseChanges, tracked >>

\* the camera delivers frame f after the script
SessionFrame(f) ==
  /\ script = << >>
  /\ tracked < MaxSessionFrames
  /\ tracked' = tracked + 1
  /\ UNCHANGED << poseChanges, script >>

\* ------------------------------------------------------------------------
\* main.py: the frame loop of run_console_mode, and the check boxes of the
\* GUI
\* ------------------------------------------------------------------------
Modes == { "gui", "console" }

\* results['calibration_status'] taken as a condition: the dictionary of a
\* calibration check counts as true, the plain boolean as itself
Truthy(status) == status.rich \/ status.value

\* the speech request the console loop makes for the calibration status
ConsolePrompt(status, calibrated_after) ==
  IF Truthy(status) /\ ~calibrated_after
  THEN << "CALIBRATION_SUCCESS" >> ELSE << >>

\* for each triggered action the loop looks up the key, logs it and calls
\* play_action_success
ConsoleSuccesses(actions) ==
  [ i \in 1..Len(actions) |-> ACTION_SUCCESS(actions[i]) ]

ConsoleHandle(f, r, g) ==
  WorkerFinish(f, r, g,
    [ gui |-> gui, last_key_time |-> last_key_time,
      injected |-> << >>, requested |-> << >>,
      spoken |-> ConsolePrompt(r.results.calibration_status,
                               r.pd.is_calibrated)
                   \o ConsoleSuccesses(g.triggered_actions) ])

ConsoleTrigger(f, r) ==
  ConsoleHandle(f, r,
    IF r.pd.is_calibrated THEN get_triggered_actions(r.ab)
    ELSE [ triggered_actions |-> << >>, ab |-> r.ab ])

\* one iteration of the loop of run_console_mode on frame f
ConsoleWorker(f) ==
  ConsoleTrigger(f, process_frame(pose_detector, action_buffer, f, now))

\* the check boxes whose clicks are explored
ToggledActions == { "left_hand" }

\* the user clicks the voice check box
ToggleVoice ==
  /\ mode = "gui"
  /\ toggles < MaxToggles
  /\ toggles' = toggles + 1
  /\ gui' = [ gui EXCEPT !.voice_enabled = ~@ ]

\* the user clicks the check box of an action
ToggleAction(action) ==
  /\ mode = "gui"
  /\ toggles < MaxToggles
  /\ toggles' = toggles + 1
  /\ gui' = [ gui EXCEPT !.action_enabled[action] = ~@ ]

\* ------------------------------------------------------------------------
\* main.py: main(), from the imports to the exit of the process
\* ------------------------------------------------------------------------
CAMERA_INDEX_DEFAULT == 0
CameraIndices == { 0, 1 }
RunModes == { "gui", "console", "test" }
NoExit == -1
Unbound == -1

\* the command lines argparse accepts (--debug only adds a traceback)
ArgvPool ==
  [ version : BOOLEAN, check : BOOLEAN, mode : RunModes,
    camera : CameraIndices ]

\* sys.exit(code), which neither except clause of main catches
Exit(code) ==
  /\ main_pc' = "exited"
  /\ exit_code' = code

\* the import of pose_detector runs the def of CameraManager.__init__, which
\* evaluates the default of camera_index then and there
ImportModules ==
  /\ main_pc = "import"
  /\ camera_default' = CAMERA_INDEX
  /\ main_pc' = "parse"
  /\ UNCHANGED << args, exit_code, CAMERA_INDEX, opened, ran, cameras,
                  deps_ok, run_outcome >>

\* parser.parse_args(): the version action prints and exits inside it
ParseArgs ==
  /\ main_pc = "parse"
  /\ IF args.version THEN Exit(0)
     ELSE main_pc' = "create" /\ UNCHANGED exit_code
  /\ UNCHANGED << args, CAMERA_INDEX, camera_default, opened, ran, cameras,
                  deps_ok, run_outcome >>

\* system = PoseDetectionSystem(); SystemConfig.CAMERA_INDEX = args.camera
CreateSystem ==
  /\ main_pc = "create"
  /\ CAMERA_INDEX' = args.camera
  /\ main_pc' = "check_dependencies"
  /\ UNCHANGED << args, exit_code, camera_default, opened, ran, cameras,
                  deps_ok, run_outcome >>

CheckDependencies ==
  /\ main_pc = "check_dependencies"
  /\ ran' = Append(ran, "check_dependencies")
  /\ IF deps_ok THEN main_pc' = "check_hardware" /\ UNCHANGED exit_code
     ELSE Exit(1)
  /\ UNCHANGED << args, CAMERA_INDEX, camera_default, opened, cameras,
                  deps_ok, run_outcome >>

\* CameraManager() followed by open_camera(): the index is the default of
\* the constructor; returns whether the camera opened
CameraManager_open_camera ==
  [ index |-> camera_default, ret |-> camera_default \in cameras ]

CheckHardware ==
  /\ main_pc = "check_hardware"
  /\ ran' = Append(ran, "check_hardware")
  /\ opened' = Append(opened, CameraManager_open_camera.index)
  /\ IF CameraManager_open_camera.ret
     THEN main_pc' = "after_checks" /\ UNCHANGED exit_code
     ELSE Exit(1)
  /\ UNCHANGED << args, CAMERA_INDEX, camera_default, cameras, deps_ok, run_outcome >>

AfterChecks_ignores_check(check) ==
  /\ main_pc = "after_checks"
  /\ main_pc' = "run" /\ UNCHANGED exit_code
  /\ UNCHANGED << args, CAMERA_INDEX, camera_default, opened, ran, cameras,
                  deps_ok, run_outcome >>

\* if args.check: sys.exit(0)
AfterChecks(check) ==
  /\ main_pc = "after_checks"
  /\ IF check THEN Exit(0)
     ELSE main_pc' = "run" /\ UNCHANGED exit_code
  /\ UNCHANGED << args, CAMERA_INDEX, camera_default, opened, ran, cameras,
                  deps_ok, run_outcome >>

RunOutcomes == { "returned", "KeyboardInterrupt", "Exception" }

RunMode_exits_zero(outcome) ==
  /\ main_pc = "run"
  /\ ran' = Append(ran, "run_" \o args.mode \o "_mode")
  /\ run_outcome' = outcome
  /\ opened' = Append(opened, CameraManager_open_camera.index)
  /\ Exit(0)
  /\ UNCHANGED << args, CAMERA_INDEX, camera_default, cameras, deps_ok >>

\* the mode selected by args.mode runs; each mode builds a CameraManager()
\* and opens it; main exits 0 on return and on KeyboardInterrupt, 1 on any
\* other exception
RunMode(outcome) ==
  /\ main_pc = "run"
  /\ run_outcome' = outcome
  /\ ran' = Append(ran, "run_" \o args.mode \o "_mode")
  /\ opened' = Append(opened, CameraManager_open_camera.index)
  /\ Exit(IF outcome = "Exception" THEN 1 ELSE 0)
  /\ UNCHANGED << args, CAMERA_INDEX, camera_default, cameras, deps_ok >>

\* ------------------------------------------------------------------------
\* The three detection loops: PoseDetectionGUI.detection_worker,
\* PoseDetectionSystem.run_console_mode, and run_simple_demo of
\* CantonesePhoneDetectionSystem
\* ------------------------------------------------------------------------
LoopKinds == { "gui", "console", "demo" }
PROCESS_EVERY == 5
Keys == { "none", "q" }

\* one pass through the body of detection_worker: the whole body is inside
\* try / except Exception, which logs the error; there is no quit key
GuiPass(read, raises) ==
  IF ~read THEN "no_frame"
  ELSE IF raises THEN "caught"
  ELSE "processed"

\* one pass through the body of the loop of run_console_mode: the body is
\* inside try / except Exception; the q key breaks out of the loop
ConsolePass(read, raises, key) ==
  IF ~read THEN "no_frame"
  ELSE IF raises THEN "caught"
  ELSE IF key = "q" THEN "quit"
  ELSE "processed"

\* one pass through the body of the loop of run_simple_demo, count being
\* frame_count after the increment: every fifth frame is processed; the
\* try statement encloses the whole loop, so an exception leaves the loop
DemoPass(read, raises, key, count) ==
  IF ~read THEN "no_frame"
  ELSE IF count % PROCESS_EVERY # 0 THEN "skipped"
  ELSE IF raises THEN "escaped"
  ELSE IF key = "q" THEN "quit"
  ELSE "processed"

LoopPass(kind, read, raises, key, count) ==
  CASE kind = "gui" -> GuiPass(read, raises)
    [] kind = "console" -> ConsolePass(read, raises, key)
    [] kind = "demo" -> DemoPass(read, raises, key, count)

\* the while condition holds and the body runs once; leaving the loop by
\* break or by an exception reaches the finally clause, which clears the
\* flag (console mode directly, the demo through cleanup)
DetectionLoopPass(read, raises, key) ==
  /\ loop_pc = "loop" /\ is_running
  /\ iterations < MaxLoopPasses
  /\ iterations' = iterations + 1
  /\ frame_count' = IF read THEN frame_count + 1 ELSE frame_count
  /\ last_pass' = LoopPass(loop_kind, read, raises, key, frame_count')
  /\ IF last_pass' \in { "quit", "escaped" }
     THEN /\ loop_pc' = "ended"
          /\ end_cause' = IF last_pass' = "quit" THEN "quit" ELSE "exception"
          /\ is_running' = FALSE
     ELSE UNCHANGED << loop_pc, end_cause, is_running >>
  /\ UNCHANGED loop_kind

\* the while condition is evaluated after the flag was cleared
DetectionLoopExit ==
  /\ loop_pc = "loop" /\ ~is_running
  /\ loop_pc' = "ended"
  /\ end_cause' = "stop"
  /\ UNCHANGED << loop_kind, is_running, frame_count, iterations, last_pass >>

\* stop_system of the GUI, or shutdown of the orchestrator, clears the flag
\* from outside the loop; the demo has no such caller
StopRequest ==
  /\ loop_kind \in { "gui", "console" }
  /\ loop_pc = "loop" /\ is_running
  /\ is_running' = FALSE
  /\ UNCHANGED << loop_kind, loop_pc, end_cause, frame_count, iterations,
                  last_pass >>

\* KeyboardInterrupt in the loop: console mode breaks, the demo reaches its
\* except KeyboardInterrupt clause; both then clear the flag
LoopInterrupt ==
  /\ loop_kind \in { "console", "demo" }
  /\ loop_pc = "loop" /\ is_running
  /\ loop_pc' = "ended"
  /\ end_cause' = "interrupt"
  /\ is_running' = FALSE
  /\ UNCHANGED << loop_kind, frame_count, iterations, last_pass >>

\* ------------------------------------------------------------------------
\* The speech managers as one thread sees them: set_volume and set_rate of
\* AudioManager (A), CantoneseAudioManager (B), CantoneseAudioManagerFixed
\* (C) and PyttsTTSAudioManager (D); speak and the play_ calls of C.
\* Volumes are in thousandths.
\* ------------------------------------------------------------------------
ManagerKinds == { "A", "B", "C", "D" }
VOLUME_MIN == 0
VOLUME_MAX == 1000
RATE_MIN == 50
RATE_MAX == 300
VOLUME_DEFAULT == 700
RATE_DEFAULT == 150

\* the arguments explored: below, at, between, and above the limits
VolumeArgs == { -500, 0, 300, 1000, 1500 }
RateArgs == { 0, 50, 200, 300, 301 }

\* a manager after __init__; D is built on the local engine only
NewManager(kind, local) ==
  [ kind |-> kind, use_local_voice |-> local \/ kind = "D",
    is_enabled |-> TRUE, is_speaking |-> FALSE,
    volume |-> VOLUME_DEFAULT, rate |-> RATE_DEFAULT ]

NoCall == [ op |-> "none", arg |-> "", speak_ret |-> "none", ret |-> "none" ]

set_volume_unclamped(m, volume) == [ m EXCEPT !.volume = volume ]

\* set_volume(volume): max(0.0, min(1.0, volume)) is stored before the
\* engine or the mixer is told
set_volume(m, volume) ==
  [ m EXCEPT !.volume = Max(VOLUME_MIN, Min(VOLUME_MAX, volume)) ]

\* set_rate(rate) of B, C and D: B and C return at once when they do not
\* use the local engine
set_rate(m, rate) ==
  IF ~m.use_local_voice THEN m
  ELSE [ m EXCEPT !.rate = Max(RATE_MIN, Min(RATE_MAX, rate)) ]

\* speak(text) of C as the caller sees it; uttered tells whether
\* _speak_local_safe, or _speak_gtts, returns True.  is_speaking is set
\* only while an utterance is inside _speak_local_safe
speak(m, text, uttered) ==
  IF ~m.is_enabled THEN "False"
  ELSE IF text = "" THEN "False"
  ELSE IF m.is_speaking THEN "False"
  ELSE IF uttered THEN "True" ELSE "False"

\* the play_ calls of C and the text each hands to speak
ConvenienceCalls ==
  { "play_system_start", "play_action_instructions",
    "play_calibration_success", "play_action_success" }

ConvenienceText(op, action) ==
  CASE op = "play_system_start" -> "SYSTEM_START"
    [] op = "play_action_instructions" -> get_all_instructions
    [] op = "play_calibration_success" -> "CALIBRATION_SUCCESS"
    [] op = "play_action_success" -> ACTION_SUCCESS(action)

\* each play_ call is the statement self.speak(...) alone: the value of
\* speak is dropped and the call returns None
Convenience(m, op, action, uttered) ==
  [ speak_ret |-> speak(m, ConvenienceText(op, action), uttered),
    ret |-> "None" ]

ManagerCall ==
  /\ mgrCalls < MaxMgrCalls
  /\ mgrCalls' = mgrCalls + 1

SetVolumeCall(volume) ==
  /\ ManagerCall
  /\ mgr' = set_volume(mgr, volume)
  /\ mcall' = [ op |-> "set_volume", arg |-> volume, speak_ret |-> "none",
                ret |-> "None" ]

SetRateCall(rate) ==
  /\ ManagerCall
  /\ mgr.kind # "A"
  /\ mgr' = set_rate(mgr, rate)
  /\ mcall' = [ op |-> "set_rate", arg |-> rate, speak_ret |-> "none",
                ret |-> "None" ]

\* set_enabled(enabled) of B, C and D
SetEnabledCall(enabled) ==
  /\ ManagerCall
  /\ mgr.kind # "A"
  /\ mgr' = [ mgr EXCEPT !.is_enabled = enabled ]
  /\ mcall' = [ op |-> "set_enabled", arg |-> enabled, speak_ret |-> "none",
                ret |-> "None" ]

ConvenienceCall(op, action, uttered) ==
  /\ ManagerCall
  /\ mgr.kind = "C"
  /\ LET c == Convenience(mgr, op, action, uttered)
     IN  mcall' = [ op |-> op,
                    arg |-> IF op = "play_action_success" THEN action ELSE "",
                    speak_ret |-> c.speak_ret, ret |-> c.ret ]
  /\ UNCHANGED mgr

\* an utterance requested by another thread enters or leaves
\* _speak_local_safe
OtherUtterance ==
  /\ mgr.kind = "C" /\ mgr.use_local_voice
  /\ mgr' = [ mgr EXCEPT !.is_speaking = ~@ ]
  /\ UNCHANGED << mcall, mgrCalls >>

\* ------------------------------------------------------------------------
\* gui_app.py: toggle_system, start_system, stop_system and on_closing of
\* PoseDetectionGUI, with the detection thread and the redraw loop
\* ------------------------------------------------------------------------
\* the window after __init__; redraw_loops counts the schedule_update
\* callbacks pending in the event loop, threads_started the detection
\* threads started so far
NewApp ==
  [ is_running |-> FALSE, detection_thread |-> "none",
    threads_started |-> 0, redraw_loops |-> 0,
    start_button |-> "start_system", camera_is_opened |-> FALSE,
    current_frame |-> "None", video_label |-> "initial",
    key_display |-> "initial", repeater_running |-> FALSE,
    pose_model |-> "loaded", speech |-> "ready", window |-> "open",
    dialogs |-> 0, announced |-> FALSE,
    worker_at |-> "loop", orphans |-> 0 ]

NoHandler == [ name |-> "none", steps |-> << >>, was_running |-> FALSE ]

start_system_ignores_open(a, cam_opened, voice) ==
  [ a EXCEPT !.camera_is_opened = cam_opened,
             !.is_running = TRUE,
             !.detection_thread = "alive",
             !.worker_at = "loop",
             !.orphans = IF a.detection_thread = "alive" THEN @ + 1 ELSE @,
             !.threads_started = @ + 1,
             !.redraw_loops = @ + 1,
             !.start_button = "stop_system",
             !.announced = voice ]

\* start_system() when open_camera() returns cam_opened and the voice check
\* box holds voice; announced tells whether the last start played the
\* start announcement.  detection_thread is rebound to the new thread: a
\* thread of an earlier start that has not ended is counted in orphans
start_system(a, cam_opened, voice) ==
  IF ~cam_opened
  THEN [ a EXCEPT !.dialogs = @ + 1 ]
  ELSE [ a EXCEPT !.camera_is_opened = TRUE,
                  !.is_running = TRUE,
                  !.detection_thread = "alive",
                  !.worker_at = "loop",
                  !.orphans = IF a.detection_thread = "alive" THEN @ + 1
                              ELSE @,
                  !.threads_started = @ + 1,
                  !.redraw_loops = @ + 1,
                  !.start_button = "stop_system",
                  !.announced = voice ]

stop_system_camera_first(a, joined) ==
  [ app |-> [ a EXCEPT !.is_running = FALSE,
                       !.detection_thread =
                          IF @ = "alive" /\ joined THEN "ended" ELSE @,
                       !.worker_at = IF joined THEN "loop" ELSE @,
                       !.camera_is_opened = FALSE,
                       !.repeater_running = FALSE,
                       !.start_button = "start_system",
                       !.video_label = "placeholder",
                       !.key_display = "placeholder" ],
    steps |-> << "close_camera", "clear_running" >>
              \o (IF a.detection_thread # "none" THEN << "join" >> ELSE << >>)
              \o << "stop_instructions", "start_button", "video_label",
                    "key_display" >> ]

\* stop_system(); joined tells whether the detection thread ends within
\* the two seconds of the join.  Returns the window afterwards and the
\* steps in the order the statements perform them
stop_system(a, joined) ==
  [ app |-> [ a EXCEPT !.is_running = FALSE,
                       !.detection_thread =
                          IF @ = "alive" /\ joined THEN "ended" ELSE @,
                       !.worker_at = IF joined THEN "loop" ELSE @,
                       !.camera_is_opened = FALSE,
                       !.repeater_running = FALSE,
                       !.start_button = "start_system",
                       !.video_label = "placeholder",
                       !.key_display = "placeholder" ],
    steps |-> << "clear_running" >>
              \o (IF a.detection_thread # "none" THEN << "join" >> ELSE << >>)
              \o << "close_camera", "stop_instructions", "start_button",
                    "video_label", "key_display" >> ]

\* the statements of on_closing after the stop, in order
CloseSteps == << "pose_cleanup", "audio_cleanup", "destroy" >>

\* the window after the first n of them
RECURSIVE AfterCloseSteps(_, _)
AfterCloseSteps(a, n) ==
  IF n = 0 THEN a
  ELSE LET b == AfterCloseSteps(a, n - 1)
       IN  CASE CloseSteps[n] = "pose_cleanup" ->
                  [ b EXCEPT !.pose_model = "closed" ]
             [] CloseSteps[n] = "audio_cleanup" ->
                  [ b EXCEPT !.speech = "cleaned" ]
             [] CloseSteps[n] = "destroy" ->
                  [ b EXCEPT !.window = "destroyed" ]

\* on_closing(): the try block runs the stop if the system is running and
\* then the close steps; done is the number of close steps that complete
\* before one raises (all of them when none raises); finally: root.quit()
on_closing(a, joined, done) ==
  LET s == IF a.is_running THEN stop_system(a, joined)
           ELSE [ app |-> a, steps |-> << >> ]
  IN  [ app |-> AfterCloseSteps(s.app, done),
        steps |-> s.steps \o SubSeq(CloseSteps, 1, done) \o << "quit" >> ]

\* whether join(timeout=2.0) can return with the thread ended: always when
\* the thread is between two statements of its loop, and only sometimes
\* when it is inside the blocking speak call
JoinOutcomes(a) ==
  IF a.detection_thread = "alive" /\ a.worker_at = "speak" THEN BOOLEAN
  ELSE { TRUE }

\* the start button is clicked: toggle_system()
ToggleSystem(joined, voice) ==
  /\ app.window = "open"
  /\ joined \in JoinOutcomes(app)
  /\ IF ~app.is_running
     THEN /\ starts < MaxStarts
          /\ starts' = starts + 1
          /\ app' = start_system(app, camera_ok, voice)
          /\ aborts' = IF camera_ok THEN aborts ELSE aborts + 1
          /\ handler' = [ name |-> "start_system", steps |-> << >>,
                          was_running |-> FALSE ]
     ELSE /\ app' = stop_system(app, joined).app
          /\ handler' = [ name |-> "stop_system",
                          steps |-> stop_system(app, joined).steps,
                          was_running |-> TRUE ]
          /\ UNCHANGED << starts, aborts >>
  /\ UNCHANGED camera_ok

\* the window is closed: on_closing()
WindowClose(joined, done) ==
  /\ app.window = "open" /\ handler.name # "on_closing"
  /\ joined \in JoinOutcomes(app)
  /\ app' = on_closing(app, joined, done).app
  /\ handler' = [ name |-> "on_closing",
                  steps |-> on_closing(app, joined, done).steps,
                  was_running |-> app.is_running ]
  /\ UNCHANGED << camera_ok, starts, aborts >>

\* detection_worker: one pass of the loop stores a frame and, when speaks
\* is set, enters audio_manager.speak, which returns when the utterance is
\* over; the loop ends when is_running is found cleared
DetectionThreadPass(speaks) ==
  /\ app.detection_thread = "alive" /\ app.worker_at = "loop"
  /\ app' = IF app.is_running
            THEN [ app EXCEPT !.current_frame = "frame",
                              !.worker_at = IF speaks THEN "speak" ELSE "loop" ]
            ELSE [ app EXCEPT !.detection_thread = "ended" ]
  /\ UNCHANGED << handler, camera_ok, starts, aborts >>

\* the speak call of the detection thread returns
WorkerSpeakReturns ==
  /\ app.detection_thread = "alive" /\ app.worker_at = "speak"
  /\ app' = [ app EXCEPT !.worker_at = "loop" ]
  /\ UNCHANGED << handler, camera_ok, starts, aborts >>

\* a detection thread of an earlier start goes through its loop: it stores
\* a frame while is_running is set and ends when it finds it cleared
OrphanThreadPass ==
  /\ app.orphans > 0
  /\ app' = IF app.is_running
            THEN [ app EXCEPT !.current_frame = "orphan frame" ]
            ELSE [ app EXCEPT !.orphans = @ - 1 ]
  /\ UNCHANGED << handler, camera_ok, starts, aborts >>

\* schedule_update of gui_update_worker: draws the frame and schedules
\* itself again while is_running is set, ends otherwise
ScheduleUpdate ==
  /\ app.redraw_loops > 0 /\ app.window = "open"
  /\ app' = IF app.is_running
            THEN [ app EXCEPT !.video_label =
                     IF app.current_frame # "None" THEN "frame" ELSE @ ]
            ELSE [ app EXCEPT !.redraw_loops = @ - 1 ]
  /\ UNCHANGED << handler, camera_ok, starts, aborts >>

\* the camera is unplugged or plugged in
CameraChange ==
  /\ camera_ok' = ~camera_ok
  /\ UNCHANGED << app, handler, starts, aborts >>

\* ------------------------------------------------------------------------
\* Sessions that track several actions
\* ------------------------------------------------------------------------
\* calibration, then: both wrists up for 29 frames; the left hand up for 29
\* frames and the left foot for 6; the left hand up for 30 frames and the
\* left foot for 29; nothing
TrackScripts ==
  { Repeat("Stand", CALIBRATION_FRAMES) \o Repeat("BothMid", buffer_size - 1),
    Repeat("Stand", CALIBRATION_FRAMES) \o Repeat("RaiseRFull", buffer_size - 1)
      \o Repeat("FootL", 6),
    Repeat("Stand", CALIBRATION_FRAMES) \o Repeat("RaiseRFull", buffer_size)
      \o Repeat("FootL", buffer_size - 1),
    Repeat("Stand", CALIBRATION_FRAMES) }

\* the actions marked detected by the frame just processed
MarkedDetected(entries) ==
  { entries[i][1] : i \in { j \in 1..Len(entries) : entries[j][2] } }

\* the record of the frame just processed by the worker, kept for the
\* frames in which a pose was tracked
TrackRecord(f) ==
  IF pose_detector.is_calibrated /\ f # NoPose
  THEN /\ recentMarks' = LastN(Append(recentMarks, MarkedDetected(added')), buffer_size)
       /\ lastMiss' = [ a \in Actions |->
                          IF a \in MarkedDetected(added') THEN lastMiss[a]
                          ELSE now ]
  ELSE UNCHANGED << recentMarks, lastMiss >>

\* the camera delivers frame f after the script
TrackFrame(f) ==
  /\ script = << >>
  /\ tracked < MaxTrackFrames
  /\ tracked' = tracked + 1
  /\ UNCHANGED << poseChanges, script >>

\* ------------------------------------------------------------------------
\* gui_app.py: the key indicator: handle_action_triggered in the detection
\* thread, update_key_display and its after(1000) callback in the GUI thread
\* ------------------------------------------------------------------------
\* the dash shown when no key is
PLACEHOLDER == "-"
\* the 1000 ms of root.after, in ticks
REVERT_DELAY == 4

\* the actions whose keys are followed on the indicator
ShownActions == { "both_hands", "left_hand", "right_hand" }

\* the detection thread calls handle_action_triggered(action)
HandleTriggered(action, raises) ==
  LET h == handle_action_triggered(
             [ gui |-> gui, last_key_time |-> last_key_time,
               injected |-> << >>, requested |-> << >>, spoken |-> << >> ],
             action, KEYBOARD_LIB, now, raises)
  IN  /\ handled < MaxHandled
      /\ raises => KEYBOARD_LIB # "none"
      /\ handled' = handled + 1
      /\ gui' = h.gui
      /\ last_key_time' = h.last_key_time
      /\ injected' = h.injected
      /\ requested' = h.requested
      /\ spoken' = h.spoken
      /\ UNCHANGED << indicator, revertAt, shownAt >>

\* update_key_display(), called by update_gui in the GUI thread
update_key_display ==
  /\ IF gui.last_key # ""
     THEN /\ indicator' = gui.last_key
          /\ revertAt' = revertAt \cup { now + REVERT_DELAY }
          /\ gui' = [ gui EXCEPT !.last_key = "" ]
          /\ shownAt' = now
     ELSE UNCHANGED << gui, indicator, revertAt, shownAt >>
  /\ UNCHANGED handled

\* a callback scheduled by after(1000, ...) is due and runs
RevertCallback(due) ==
  /\ due \in revertAt /\ due <= now
  /\ indicator' = PLACEHOLDER
  /\ revertAt' = revertAt \ { due }
  /\ UNCHANGED << shownAt, handled >>

\* ------------------------------------------------------------------------
\* gui_app.py and audio_manager_cantonese_fixed.py: the calibration prompts
\* of a GUI session, spoken by the detection thread while the GUI thread
\* speaks the start announcement
\* ------------------------------------------------------------------------
\* the frames the camera delivers while the user takes position
PromptFrames == { "Hidden", "TooClose", "TooFar", "Stand", NoPose }

\* the start button is clicked on a stopped system and the camera opens:
\* start_system starts the detection thread and then, in the GUI thread,
\* calls play_system_start, whose speak returns when the utterance is over
StartAndAnnounce ==
  /\ ~app.is_running /\ app.detection_thread = "none"
  /\ app' = start_system(app, TRUE, gui.voice_enabled)
  /\ IF gui.voice_enabled /\ speak(mgr, "SYSTEM_START", TRUE) = "True"
     THEN /\ mgr' = [ mgr EXCEPT !.is_speaking = TRUE ]
          /\ announcing' = TRUE
     ELSE UNCHANGED << mgr, announcing >>
  /\ UNCHANGED << emitted, heard >>

\* the start announcement is over: _speak_local_safe clears is_speaking
AnnouncementEnds ==
  /\ announcing
  /\ announcing' = FALSE
  /\ mgr' = [ mgr EXCEPT !.is_speaking = FALSE ]
  /\ UNCHANGED << app, emitted, heard >>

\* the speech request of the iteration just made by the detection thread
PromptRequest ==
  WorkerPrompt(results'.calibration_status, pose_detector'.is_calibrated,
               gui.voice_enabled)

\* one iteration of detection_worker on frame f, up to the return of the
\* iteration or to the moment its speak call starts the utterance
PromptWorker(f) ==
  /\ app.is_running /\ app.detection_thread = "alive"
  /\ app.worker_at = "loop"
  /\ DetectionWorker(f)
  /\ emitted' = emitted \cup
                  (IF results'.calibration_status.voice_prompt # NoPrompt
                   THEN { results'.calibration_status.voice_prompt } ELSE {})
  /\ IF PromptRequest # << >> /\ speak(mgr, PromptRequest[1], TRUE) = "True"
     THEN /\ mgr' = [ mgr EXCEPT !.is_speaking = TRUE ]
          /\ heard' = heard \cup { PromptRequest[1] }
          /\ app' = [ app EXCEPT !.current_frame = "frame",
                                 !.worker_at = "speak" ]
     ELSE /\ app' = [ app EXCEPT !.current_frame = "frame" ]
          /\ UNCHANGED << mgr, heard >>
  /\ UNCHANGED announcing

\* the utterance of the detection thread is over
PromptSpoken ==
  /\ app.detection_thread = "alive" /\ app.worker_at = "speak"
  /\ app' = [ app EXCEPT !.worker_at = "loop" ]
  /\ mgr' = [ mgr EXCEPT !.is_speaking = FALSE ]
  /\ UNCHANGED << announcing, emitted, heard >>

\* ------------------------------------------------------------------------
\* main_cantonese.py: the menu of main(), test_system, run_simple_demo and
\* cleanup of CantonesePhoneDetectionSystem
\* ------------------------------------------------------------------------
Components == { "camera_manager", "pose_detector", "audio_manager" }
MaxChoices == 3
MaxDemoFrames == 6

\* a method of each component in cs is called
Use(p, cs) ==
  [ c \in Components |->
      IF c \in cs /\ p[c].cleaned > 0
      THEN [ p[c] EXCEPT !.used_after = TRUE ] ELSE p[c] ]

\* CameraManager.open_camera binds cap to a new capture and sets is_opened
\* if the capture opened
DemoOpenCamera(s, cam_ok) ==
  [ s EXCEPT !.cap = TRUE, !.is_opened = IF cam_ok THEN TRUE ELSE @ ]

\* CantonesePhoneDetectionSystem.cleanup: running is cleared, the camera is
\* released if a capture is bound, pose.close() and audio_manager.cleanup()
\* are called
cleanup(p, s) ==
  [ parts |->
      [ c \in Components |->
          IF c = "camera_manager" /\ ~s.cap THEN p[c]
          ELSE [ p[c] EXCEPT !.cleaned = @ + 1 ] ],
    sys |-> [ s EXCEPT !.running = FALSE,
                       !.is_opened = IF s.cap THEN FALSE ELSE @ ] ]

\* choice 1: test_system speaks five phrases with speak_blocking, opens the
\* camera and closes it again if it opened
ChooseTest(cam_ok) ==
  /\ menu_pc = "menu" /\ choices < MaxChoices
  /\ choices' = choices + 1
  /\ parts' = Use(parts, { "audio_manager" })
  /\ demo_sys' = [ demo_sys EXCEPT !.cap = TRUE,
                                   !.is_opened = IF cam_ok THEN FALSE ELSE @ ]
  /\ UNCHANGED menu_pc

\* choice 2: run_simple_demo up to the loop; a camera that does not open
\* makes it return through the finally clause, which calls cleanup
ChooseDemo(cam_ok) ==
  /\ menu_pc = "menu" /\ choices < MaxChoices
  /\ choices' = choices + 1
  /\ IF cam_ok
     THEN /\ menu_pc' = "demo"
          /\ parts' = Use(parts, { "audio_manager" })
          /\ demo_sys' = [ DemoOpenCamera(demo_sys, TRUE)
                             EXCEPT !.running = TRUE, !.frame_count = 0 ]
     ELSE /\ menu_pc' = "menu"
          /\ parts' = cleanup(parts, DemoOpenCamera(demo_sys, FALSE)).parts
          /\ demo_sys' = cleanup(parts, DemoOpenCamera(demo_sys, FALSE)).sys

\* the components one pass through the loop body calls
DemoUses(pass, speaks) ==
  IF pass \in { "no_frame", "skipped" } THEN {}
  ELSE IF pass = "escaped" \/ ~speaks THEN { "pose_detector" }
  ELSE { "pose_detector", "audio_manager" }

\* one pass through the loop of run_simple_demo; the q key and an
\* exception both lead to the finally clause, which calls cleanup
DemoFrame(read, raises, key, speaks) ==
  /\ menu_pc = "demo" /\ demo_sys.running
  /\ demo_sys.frame_count < MaxDemoFrames
  /\ LET count == IF read THEN demo_sys.frame_count + 1
                  ELSE demo_sys.frame_count
         pass == DemoPass(read, raises, key, count)
         used == Use(parts, DemoUses(pass, speaks))
         counted == [ demo_sys EXCEPT !.frame_count = count ]
     IN  IF pass \in { "quit", "escaped" }
         THEN /\ menu_pc' = "menu"
              /\ parts' = cleanup(used, counted).parts
              /\ demo_sys' = cleanup(used, counted).sys
         ELSE /\ parts' = used
              /\ demo_sys' = counted
              /\ UNCHANGED menu_pc
  /\ UNCHANGED choices

\* Ctrl+C while the demo runs: except KeyboardInterrupt, then finally
DemoInterrupt ==
  /\ menu_pc = "demo"
  /\ menu_pc' = "menu"
  /\ parts' = cleanup(parts, demo_sys).parts
  /\ demo_sys' = cleanup(parts, demo_sys).sys
  /\ UNCHANGED choices

\* any other input: the menu is shown again
ChooseInvalid ==
  /\ menu_pc = "menu" /\ choices < MaxChoices
  /\ choices' = choices + 1
  /\ UNCHANGED << menu_pc, parts, demo_sys >>

\* choice 3 breaks out of the menu loop; the finally clause of main calls
\* cleanup
ChooseExit ==
  /\ menu_pc = "menu"
  /\ menu_pc' = "exited"
  /\ parts' = cleanup(parts, demo_sys).parts
  /\ demo_sys' = cleanup(parts, demo_sys).sys
  /\ UNCHANGED choices

\* Ctrl+C at the prompt of the menu: except KeyboardInterrupt, then finally
MenuInterrupt ==
  /\ menu_pc = "menu"
  /\ menu_pc' = "interrupted"
  /\ parts' = cleanup(parts, demo_sys).parts
  /\ demo_sys' = cleanup(parts, demo_sys).sys
  /\ UNCHANGED choices

\* --- initial values -------------------------------------------------------
InitPoseObs ==
  /\ gui = NewGui
  /\ frame = "start"
  /\ results = [ pose_detected |-> FALSE, actions |-> EmptyDict,
                 calibration_status |-> LegacyStatus(FALSE) ]
  /\ added = << >>
  /\ triggered = << >>
  /\ injected = << >>
  /\ requested = << >>
  /\ spoken = << >>
  /\ poseChanges = 0
  /\ tracked = 0
  /\ resets = 0
  /\ stableRunAll = 0
  /\ stableRunSeen = 0
  /\ promptCount = NoPrompts
  /\ held = [ n |-> 0, keys |-> 0 ]
  /\ distanceSeen = {}

InitPose == pose_detector = NewPoseDetector /\ InitPoseObs

InitBufObs ==
  /\ bufCall = NoBufCall
  /\ window = EmptyDict
  /\ recorded = EmptyDict
  /\ runStart = EmptyDict
  /\ runLast = EmptyDict
  /\ switches = 0
  /\ prevCallStable = EmptyDict
  /\ fired = EmptyDict
  /\ falseSinceFire = EmptyDict
  /\ unstableSinceFire = EmptyDict
  /\ dropSinceFire = EmptyDict
  /\ streakAfterFire = EmptyDict

InitBuffer == action_buffer = NewActionBuffer /\ InitBufObs

InitKeyboard ==
  /\ last_key_time = EmptyDict
  /\ keyCall = NoKeyCall
  /\ successLog = EmptyDict
  /\ presses = 0

InitHand ==
  /\ handIn = [ baseline |-> NoBaseline,
                current |-> _extract_pose_features(Stand) ]
  /\ handOut = NoHandResult

InitAudio ==
  /\ audio = NewAudioManager(TRUE)
  /\ play_thread = "none"
  /\ caller = CallerIdle
  /\ played = << >>
  /\ mutedAtStart = {}

\* time.time() is far from 0, the value ActionBuffer uses for "no streak"
InitClock == now = 1

InitCacheFiles ==
  /\ sound_files = {}
  /\ synth_requests = [ text \in Texts |-> 0 ]
  /\ made = [ text \in Texts |-> {} ]
  /\ returned = [ text \in Texts |-> {} ]
  /\ genCall = NoGenCall
  /\ genCalls = 0

InitSpeech ==
  /\ tts = NewSpeechManager
  /\ engine_lock = "none"
  /\ speech_queue = << >>
  /\ thr = [ t \in ThreadIds |-> IdleThread ]
  /\ apiCalls = 0
  /\ route = NoRoute

InitModes == mode = "gui" /\ toggles = 0

InitProcess ==
  /\ main_pc = "import"
  /\ exit_code = NoExit
  /\ CAMERA_INDEX = CAMERA_INDEX_DEFAULT
  /\ camera_default = Unbound
  /\ opened = << >>
  /\ ran = << >>
  /\ run_outcome = "none"

\* the orchestrator at rest: started without options on a complete system
InitMainIdle ==
  /\ InitProcess
  /\ args = [ version |-> FALSE, check |-> FALSE, mode |-> "gui",
              camera |-> CAMERA_INDEX_DEFAULT ]
  /\ cameras = { CAMERA_INDEX_DEFAULT }
  /\ deps_ok = TRUE

\* a detection loop that was just entered
InitLoop ==
  /\ is_running = TRUE
  /\ loop_pc = "loop"
  /\ end_cause = "none"
  /\ frame_count = 0
  /\ iterations = 0
  /\ last_pass = "none"

InitCalls ==
  /\ mcall = NoCall
  /\ mgrCalls = 0

InitWindow ==
  /\ app = NewApp
  /\ handler = NoHandler
  /\ starts = 0
  /\ aborts = 0

InitTracked ==
  /\ recentMarks = << >>
  /\ lastMiss = [ a \in Actions |-> 0 ]

InitIndicator ==
  /\ indicator = PLACEHOLDER
  /\ revertAt = {}
  /\ shownAt = 0
  /\ handled = 0

InitPrompts ==
  /\ announcing = FALSE
  /\ emitted = {}
  /\ heard = {}

InitMenu ==
  /\ menu_pc = "menu"
  /\ parts = [ c \in { "camera_manager", "pose_detector", "audio_manager" }
                 |-> [ cleaned |-> 0, used_after |-> FALSE ] ]
  /\ demo_sys = [ cap |-> FALSE, is_opened |-> FALSE, running |-> FALSE,
                  frame_count |-> 0 ]
  /\ choices = 0

InitExtra == InitTracked /\ InitIndicator /\ InitPrompts /\ InitMenu

InitAppOld ==
  /\ loop_kind = "gui" /\ InitLoop
  /\ mgr = NewManager("C", TRUE) /\ InitCalls
  /\ InitWindow /\ camera_ok = TRUE

InitApp == InitAppOld /\ InitExtra

InitLater == script = << >> /\ InitModes /\ InitMainIdle /\ InitApp

InitOld ==
  /\ InitClock /\ InitPose /\ InitBuffer /\ InitKeyboard /\ InitHand
  /\ InitAudio
  /\ KEYBOARD_LIB = "keyboard"

\* the variables of the other specifications, at rest
InitOther ==
  /\ InitCacheFiles /\ GTTS_AVAILABLE = TRUE
  /\ InitSpeech /\ backend = "C"
  /\ InitLater

\* ------------------------------------------------------------------------
\* Specification of the detection pipeline: camera frames through the pose
\* engine, the stability buffer and the key injection
\* ------------------------------------------------------------------------
vars ==
  << envVars, poseVars, bufVars, keyVars, poseObs, bufObs, keyObs,
     handVars, audioVars, otherVars >>

Init ==
  /\ InitClock /\ InitPose /\ InitBuffer /\ InitKeyboard
  /\ InitHand /\ InitAudio /\ InitOther
  /\ KEYBOARD_LIB = "keyboard"

WorkerStep ==
  /\ \E f \in FrameNames : CameraFrame(f) /\ DetectionWorker(f)
  /\ UNCHANGED << bufObs, keyObs, handVars, audioVars, otherVars >>

ResetStep ==
  ResetCalibration /\ UNCHANGED << bufObs, keyObs, handVars, audioVars, otherVars >>

\* the clock is read only by add_detection and press_key: while the engine
\* is calibrating, the passing of time changes nothing the pipeline observes
TickStep ==
  /\ pose_detector.is_calibrated
  /\ Tick(MaxClock)
  /\ UNCHANGED << poseVars, bufVars, keyVars, poseObs, bufObs, keyObs,
                  handVars, audioVars, otherVars >>

Next == WorkerStep \/ ResetStep \/ TickStep

Spec == Init /\ [][Next]_vars

\* ------------------------------------------------------------------------
\* Properties of the detection pipeline (Spec)
\* ------------------------------------------------------------------------
Calibrated == pose_detector.is_calibrated

\* C1 as stated: the engine is calibrated only when the completing frame
\* and the 14 frames handed to process_frame before it were all stable.
C1_AllFramesStable ==
  Calibrated => stableRunAll >= CALIBRATION_FRAMES

\* C1 amended: while calibrating, the counter equals the number of stable
\* frames in a row among the frames in which a pose was found (a frame with
\* a pose that is not stable resets it to 0, a frame without a pose leaves
\* it alone), and the engine is calibrated only when 15 such frames in a
\* row were stable.
C1_PoseFramesStable ==
  /\ ~Calibrated =>
       /\ pose_detector.calibration_frames = stableRunSeen
       /\ stableRunSeen < CALIBRATION_FRAMES
  /\ Calibrated => stableRunSeen >= CALIBRATION_FRAMES

\* calibration completes on a frame although one of the 14 frames before
\* it was a frame in which no pose was found
C1_CalibratedAcrossNoPose ==
  /\ Calibrated /\ tracked = 0
  /\ results.calibration_status.completed
  /\ stableRunSeen = CALIBRATION_FRAMES
  /\ stableRunAll < CALIBRATION_FRAMES

\* C5: within one calibration session the results carry each of the
\* body-incomplete, distance and success voice prompts at most once.
C5_PromptsOncePerSession ==
  \A k \in DOMAIN promptCount : promptCount[k] <= 1

\* after a reset, all three prompts were emitted once more
C5_PromptsAgainAfterReset ==
  /\ resets = 1
  /\ \A k \in DOMAIN promptCount : promptCount[k] = 1

\* the action accepted in the last frame: detected_actions entries that are true
Accepted == { a \in DOMAIN results.actions : results.actions[a] }

\* C4: while the raw right wrist is held 0.25 higher than at baseline,
\* left_hand is the accepted action of every frame and the only triggered
\* one, and once left_hand is stable the key "A" has been injected exactly
\* once during the hold.
C4_LeftHandOnHold ==
  (Calibrated /\ held.n >= 1) =>
    /\ Accepted = { "left_hand" }
    /\ \A i \in 1..Len(triggered) : triggered[i] = "left_hand"
    /\ held.keys <= 1
    /\ is_action_stable(action_buffer, "left_hand") => held.keys = 1

\* C6: on every tracked frame with landmarks at most one action is accepted
\* (both_hands bringing left_hand and right_hand along) and each of the 9
\* actions receives exactly one buffer entry, true iff it is accepted.
C6_OneEntryPerAction ==
  (Calibrated /\ tracked >= 1 /\ frame # NoPose) =>
    /\ \/ Cardinality(Accepted) <= 1
       \/ Accepted = { "both_hands", "left_hand", "right_hand" }
    /\ \A a \in Actions :
         /\ Cardinality({ i \in 1..Len(added) : added[i][1] = a }) = 1
         /\ \A i \in 1..Len(added) :
              added[i][1] = a => (added[i][2] <=> a \in Accepted)

\* ------------------------------------------------------------------------
\* Specification of the stability buffer: any sequence of add_detection and
\* should_trigger_action calls, with time passing in between
\* ------------------------------------------------------------------------
InitB == Init

AddStep ==
  /\ \E a \in BufActions, d \in BOOLEAN : BufAdd(a, d)
  /\ UNCHANGED << envVars, poseVars, keyVars, poseObs, keyObs, handVars,
                  audioVars, otherVars >>

TriggerStep ==
  /\ \E a \in BufActions : BufTrigger(a)
  /\ UNCHANGED << envVars, poseVars, keyVars, poseObs, keyObs, handVars,
                  audioVars, otherVars >>

BufTickStep ==
  /\ Tick(MaxBufferClock)
  /\ UNCHANGED << poseVars, bufVars, keyVars, poseObs, bufObs, keyObs,
                  handVars, audioVars, otherVars >>

NextB == AddStep \/ TriggerStep \/ BufTickStep

SpecBuffer == InitB /\ [][NextB]_vars

\* C2: should_trigger_action returns true exactly on a call at which the
\* action is stable and was not stable at the previous call; on a call at
\* which it is stable and was stable at the previous call it returns false.
C2_FiresOnRisingEdge ==
  bufCall.op = "should_trigger_action" =>
    (bufCall.ret <=> (bufCall.stable /\ ~bufCall.prevStable))

\* a call that returns false although the action is stable, after a fire
C2_SilentWhileStable ==
  /\ bufCall.op = "should_trigger_action"
  /\ bufCall.stable /\ bufCall.prevStable /\ ~bufCall.ret
  /\ bufCall.refire

\* C7: the history keeps exactly the 30 most recent detections, and
\* is_action_stable is true iff 30 or more detections were recorded, at
\* least 80% of the 30 kept are true and the current unbroken run of true
\* detections has lasted at least 1.0 s.
C7_StableIffWindowAndStreak ==
  \A a \in DOMAIN window :
    /\ action_buffer.buffers[a] = window[a]
    /\ is_action_stable(action_buffer, a) <=>
         /\ recorded[a] >= buffer_size
         /\ ~RatioBelow(window[a])
         /\ runStart[a] > 0
         /\ runLast[a] - runStart[a] >= MIN_DURATION

\* stable with exactly 24 of the 30 kept detections true
C7_StableAtEightyPercent ==
  /\ "left_hand" \in DOMAIN window
  /\ is_action_stable(action_buffer, "left_hand")
  /\ CountTrue(window["left_hand"]) = 24

InitK ==
  /\ InitClock /\ InitPose /\ InitBuffer /\ InitKeyboard
  /\ InitHand /\ InitAudio /\ InitOther
  /\ KEYBOARD_LIB \in KeyboardLibs

PressStep ==
  /\ \E key \in KeyPool, raises \in BOOLEAN : PressKey(key, raises)
  /\ UNCHANGED << envVars, poseVars, bufVars, poseObs, bufObs, handVars,
                  audioVars, otherVars >>

KeyTickStep ==
  /\ Tick(MaxClock)
  /\ UNCHANGED << poseVars, bufVars, keyVars, poseObs, bufObs, keyObs,
                  handVars, audioVars, otherVars >>

NextK == PressStep \/ KeyTickStep

SpecKey == InitK /\ [][NextK]_vars

\* C3: unless the injection library raises, a press_key request for key k
\* succeeds and injects k exactly when no request for k succeeded less than
\* 0.5 s earlier, whatever happened to other keys and whatever requests for
\* k were rejected in between; a rejected request injects nothing.
C3_CooldownPerKey ==
  (keyCall.key # "" /\ ~keyCall.raised) =>
    /\ keyCall.ret <=> ~keyCall.recent
    /\ keyCall.ret => /\ Len(keyCall.injected) = 1
                      /\ keyCall.injected[1].key = keyCall.key
    /\ ~keyCall.ret => keyCall.injected = << >>

\* a request succeeds 0.5 s after the last success for its key, although a
\* request for that key was rejected in between and another key succeeded
C3_SucceedsAfterRejection ==
  /\ keyCall.ret
  /\ keyCall.afterReject
  /\ keyCall.prevSuccess > 0
  /\ keyCall.t - keyCall.prevSuccess = key_cooldown
  /\ \E k \in DOMAIN successLog :
       k # keyCall.key /\ keyCall.t - successLog[k] < key_cooldown

\* ------------------------------------------------------------------------
\* Specification of the hand-raise check: the pure function applied to a
\* grid of baselines and current features
\* ------------------------------------------------------------------------
InitHandCheck ==
  /\ InitClock /\ InitPose /\ InitBuffer /\ InitKeyboard /\ InitAudio
  /\ InitOther
  /\ KEYBOARD_LIB = "keyboard"
  /\ handIn \in HandInputs
  /\ handOut = NoHandResult

CheckHandStep ==
  /\ \E side \in { "left", "right" } : CheckHand(side)
  /\ UNCHANGED << envVars, poseVars, bufVars, keyVars, poseObs, bufObs,
                  keyObs, audioVars, otherVars >>

NextHand == CheckHandStep

SpecHand == InitHandCheck /\ [][NextHand]_vars

\* the height by which the wrist of a raw side rose relative to its shoulder
RawRise(in, raw_side) ==
  (in.baseline[Key(raw_side, "wrist")].y
     - in.baseline[Key(raw_side, "shoulder")].y)
  - (in.current[Key(raw_side, "wrist")].y
     - in.current[Key(raw_side, "shoulder")].y)

InitA ==
  /\ InitClock /\ InitPose /\ InitBuffer /\ InitKeyboard /\ InitHand
  /\ InitOther
  /\ KEYBOARD_LIB = "keyboard"
  /\ audio \in { NewAudioManager(i) : i \in BOOLEAN }
  /\ play_thread = "none"
  /\ caller = CallerIdle
  /\ played = << >>
  /\ mutedAtStart = {}

NotAudio ==
  << envVars, poseVars, bufVars, keyVars, poseObs, bufObs, keyObs, handVars,
     otherVars >>

PlayTextStep ==
  /\ \E priority \in Priorities, file_ok \in BOOLEAN :
       PlayTextCall(priority, file_ok)
  /\ UNCHANGED NotAudio

SortBeginStep == SortBegin /\ UNCHANGED NotAudio
SortEndStep == SortEnd /\ UNCHANGED NotAudio
StartPlaybackStep == StartPlayback /\ UNCHANGED NotAudio
SetMuteStep == (\E muted \in BOOLEAN : SetMute(muted)) /\ UNCHANGED NotAudio
WorkerBeginStep == WorkerBegin /\ UNCHANGED NotAudio
WorkerTestStep == WorkerTest /\ UNCHANGED NotAudio
WorkerPopStep == WorkerPop /\ UNCHANGED NotAudio
WorkerStartClipStep == WorkerStartClip /\ UNCHANGED NotAudio
WorkerPlayedStep == WorkerPlayed /\ UNCHANGED NotAudio
WorkerExitStep == WorkerExit /\ UNCHANGED NotAudio
WorkerEndStep == WorkerEnd /\ UNCHANGED NotAudio

NextA ==
  \/ PlayTextStep \/ SortBeginStep \/ SortEndStep \/ StartPlaybackStep
  \/ SetMuteStep
  \/ WorkerBeginStep \/ WorkerTestStep \/ WorkerPopStep
  \/ WorkerStartClipStep \/ WorkerPlayedStep
  \/ WorkerExitStep \/ WorkerEndStep

SpecAudio == InitA /\ [][NextA]_vars

\* clip x goes before clip y: lower priority number, ties in enqueue order
GoesBefore(x, y) ==
  \/ x.priority < y.priority
  \/ x.priority = y.priority /\ x.seq < y.seq

\* C10 as stated: the clips are played in ascending priority order, ties in
\* enqueue order.
C10_PlayedInPriorityOrder ==
  \A i, j \in 1..Len(played) : i < j => GoesBefore(played[i], played[j])

\* C10 amended: a clip is played before every clip of larger priority
\* number, or of the same priority and enqueued later, whose play_text call
\* had finished sorting the queue when the worker took the clip.
C10_PlayedBeforeQueuedLowerPriority ==
  \A i, j \in 1..Len(played) :
    (i < j /\ played[j].seq <= played[i].sorted)
      => GoesBefore(played[i], played[j])

\* enqueued 2, 0, 1 before the worker took a clip, played 0, 1, 2
C10_QueuedFirstPlayedInOrder ==
  /\ Len(played) = 3
  /\ played[1].priority = 0 /\ played[1].seq = 2 /\ played[1].sorted = 3
  /\ played[2].priority = 1 /\ played[2].seq = 3
  /\ played[3].priority = 2 /\ played[3].seq = 1

\* ------------------------------------------------------------------------
\* Specification of the audio file cache: any sequence of
\* _generate_audio_file calls, with files removed in between
\* ------------------------------------------------------------------------
InitCache ==
  /\ InitOld
  /\ InitCacheFiles
  /\ GTTS_AVAILABLE \in BOOLEAN
  /\ InitSpeech /\ backend = "C"
  /\ InitLater

NotCache == << oldVars, speechVars, laterVars >>

GenerateStep ==
  /\ \E text \in Texts, save \in SaveOutcomes : GenerateAudioFile(text, save)
  /\ UNCHANGED NotCache

RemoveStep ==
  /\ \E path \in sound_files : RemoveSoundFile(path)
  /\ UNCHANGED NotCache

NextCache == GenerateStep \/ RemoveStep

SpecCache == InitCache /\ [][NextCache]_vars

\* C11: a call of _generate_audio_file that finds the file of its text in
\* the sound directory returns a path and makes no synthesis request;
\* every path returned for a text is the same path; a synthesis request is
\* made only by a call that found no file.
C11_CacheHitSkipsSynthesis ==
  /\ genCall.existed /\ GTTS_AVAILABLE =>
        genCall.ret # NoPath /\ genCall.requests = 0
  /\ genCall.requests > 0 => ~genCall.existed
  /\ \A text \in Texts : Cardinality(returned[text]) <= 1

\* the second call for a text whose first call synthesized the file: the
\* same path comes back and the text was synthesized once
C11_SecondCallHitsCache ==
  /\ genCall.text \in Texts
  /\ genCall.existed
  /\ genCall.requests = 0
  /\ genCall.ret \in genCall.earlier
  /\ synth_requests[genCall.text] = 1

\* ------------------------------------------------------------------------
\* Specification of the speech backends B, C and D: two threads calling
\* speak, speak_blocking, set_volume, set_rate, stop and cleanup
\* ------------------------------------------------------------------------
InitSpeechCalls ==
  /\ InitOld /\ InitCacheFiles /\ GTTS_AVAILABLE = TRUE
  /\ InitSpeech
  /\ backend \in Backends
  /\ InitLater

NotSpeech == << oldVars, cacheVars, laterVars >>

SpeakStep ==
  /\ \E t \in Callers, text \in SpeechTexts : SpeakCall(t, text)
  /\ UNCHANGED NotSpeech

SpeakStartStep ==
  /\ \E t \in Callers : SpeakStart(t)
  /\ UNCHANGED NotSpeech

SpeakBlockingStep ==
  /\ \E t \in Callers, text \in SpeechTexts : SpeakBlockingCall(t, text)
  /\ UNCHANGED NotSpeech

ControlStep ==
  /\ \E t \in Callers, op \in ControlOps : ControlCall(t, op)
  /\ UNCHANGED NotSpeech

WorkerGetStep == WorkerGet /\ UNCHANGED NotSpeech

AcquireStep ==
  /\ \E t \in ThreadIds : AcquireLock(t)
  /\ UNCHANGED NotSpeech

SayStep ==
  /\ \E t \in ThreadIds, ok \in BOOLEAN : SayText(t, ok)
  /\ UNCHANGED NotSpeech

RunDoneStep ==
  /\ \E t \in ThreadIds, ok \in BOOLEAN : RunAndWaitDone(t, ok)
  /\ UNCHANGED NotSpeech

EngineControlStep ==
  /\ \E t \in ThreadIds : EngineControl(t)
  /\ UNCHANGED NotSpeech

NextSpeech ==
  \/ SpeakStep \/ SpeakStartStep \/ SpeakBlockingStep \/ ControlStep
  \/ WorkerGetStep \/ AcquireStep \/ SayStep \/ RunDoneStep
  \/ EngineControlStep

SpecSpeech == InitSpeechCalls /\ [][NextSpeech]_vars

\* C12: in backend C a speak request made while another speak request is
\* in flight returns failure at once, and its text never reaches the engine.
C12_OverlappingSpeakRejected ==
  backend = "C" =>
    \A t \in Callers :
      thr[t].op = "speak" /\ thr[t].busy =>
        thr[t].pc = "idle" /\ thr[t].ret = "false"

\* C13: in backends B and C a thread that is re-creating the engine, inside
\* say/runAndWait, setting a property or stopping the engine holds the
\* engine lock; so at most one thread operates on the handle at any time.
C13_EngineUnderLock ==
  backend \in { "B", "C" } =>
    /\ \A t \in ThreadIds : thr[t].pc \in EnginePcs => engine_lock = t
    /\ Cardinality({ t \in ThreadIds : thr[t].pc \in EnginePcs }) <= 1

\* a thread is inside runAndWait while another thread, which called stop,
\* set_volume, set_rate or cleanup, waits for the engine lock
C13_ControlWaitsForSpeech ==
  /\ backend \in { "B", "C" }
  /\ \E t, u \in ThreadIds :
       /\ thr[t].pc = "run" /\ engine_lock = t
       /\ thr[u].pc = "lock" /\ thr[u].op \in ControlOps

\* the threads of backend D that are inside say/runAndWait
Speaking == { t \in ThreadIds : thr[t].pc = "run" }

\* C14: in backend D two threads can be inside say/runAndWait together;
\* unless speak_blocking was used, stop or cleanup reset is_speaking under
\* a request in flight, or two speak calls passed the is_speaking check
\* before either set the flag, at most one thread is inside.
C14_OverlapOnlyUnsynchronized ==
  backend = "D" /\ route = NoRoute => Cardinality(Speaking) <= 1

\* two speak calls both passed the is_speaking check, and the two threads
\* they started are inside say/runAndWait together
C14_TwoSpeakThreadsInEngine ==
  /\ backend = "D"
  /\ route = [ NoRoute EXCEPT !.raced = TRUE ]
  /\ \A t \in Callers : SpeakThread(t) \in Speaking

\* ------------------------------------------------------------------------
\* Distance prompts of a calibration session (specification Spec)
\* ------------------------------------------------------------------------
\* the step is an iteration of the detection worker whose frame reached the
\* distance check of _check_calibration and failed it
DistanceCheckFailed ==
  /\ now' = now /\ resets' = resets
  /\ results'.calibration_status.rich
  /\ DistanceKind(frame') # {}

\* C17 (as stated): the first frame of a session that is too close carries
\* the too-close prompt and the first frame that is too far carries the
\* too-far prompt, whichever of the two comes first.
C17_FirstOfEachKindPrompts ==
  [][DistanceCheckFailed /\ ~(DistanceKind(frame') \subseteq distanceSeen)
       => results'.calibration_status.voice_prompt
            = KindPrompt(DistanceKind(frame'))]_vars

\* C17 (amended): only the first frame of a session that fails the distance
\* check carries a distance prompt, the one of its own kind; every later
\* frame that is too close or too far carries none, also when its kind has
\* not been seen before in the session.
C17_OneDistancePromptPerSession ==
  [][/\ DistanceCheckFailed
          => results'.calibration_status.voice_prompt
               = IF distanceSeen = {} THEN KindPrompt(DistanceKind(frame'))
                 ELSE NoPrompt
     /\ promptCount'.distance <= 1]_vars

\* a session saw both kinds; the frame of the second kind carried no prompt
C17_SecondKindSilent ==
  /\ distanceSeen = { "close", "far" }
  /\ promptCount.distance = 1
  /\ results.calibration_status.rich
  /\ DistanceKind(frame) # {}
  /\ results.calibration_status.voice_prompt = NoPrompt

\* ------------------------------------------------------------------------
\* Specification of sessions that run long: the detection worker on a
\* script of frames and then on any frames, and reset_calibration
\* ------------------------------------------------------------------------
InitSession ==
  /\ InitOld
  /\ InitCacheFiles /\ GTTS_AVAILABLE = TRUE
  /\ InitSpeech /\ backend = "C"
  /\ script \in SessionScripts
  /\ InitModes /\ InitMainIdle /\ InitApp

NotSession ==
  << bufObs, keyObs, handVars, audioVars, cacheVars, speechVars, modeVars,
     mainVars, appVars >>

ScriptStep ==
  /\ ScriptFrame /\ DetectionWorker(script[1])
  /\ UNCHANGED NotSession

SessionFrameStep ==
  /\ \E f \in FrameNames : SessionFrame(f) /\ DetectionWorker(f)
  /\ UNCHANGED NotSession

SessionTickStep ==
  /\ pose_detector.is_calibrated
  /\ Tick(MaxSessionClock)
  /\ UNCHANGED << poseVars, bufVars, keyVars, poseObs, bufObs, keyObs,
                  handVars, audioVars, otherVars >>

NextSession ==
  ScriptStep \/ SessionFrameStep \/ SessionTickStep \/ ResetStep

SpecSession == InitSession /\ [][NextSession]_vars

CalibrationPrompts ==
  { BODY_NOT_COMPLETE, DISTANCE_TOO_CLOSE, DISTANCE_TOO_FAR,
    CALIBRATION_SUCCESS_CANTONESE, "CALIBRATION_SUCCESS" }

\* the step is an iteration of the detection worker
FrameProcessed == now' = now /\ resets' = resets

\* C15: once calibrated, every processed frame leaves is_calibrated true
\* and the baseline, the counter and the prompt flags as they were, runs
\* no calibration check (the status it carries is the plain boolean) and
\* makes the worker speak no calibration prompt, until reset_calibration.
C15_TrackingUntilReset ==
  [][pose_detector.is_calibrated /\ FrameProcessed
       => /\ pose_detector' = pose_detector
          /\ pose_detector'.is_calibrated
          /\ pose_detector'.baseline_pose # NoBaseline
          /\ ~results'.calibration_status.rich
          /\ results'.calibration_status.voice_prompt = NoPrompt
          /\ \A i \in 1..Len(spoken') : spoken'[i] \notin CalibrationPrompts
    ]_vars

\* a calibrated session has processed further frames, the last of which
\* would have failed the calibration checks, and kept its baseline
C15_TrackedFramesKeepBaseline ==
  /\ pose_detector.is_calibrated
  /\ resets = 0
  /\ tracked = MaxSessionFrames
  /\ ~IsStableFrame(frame)
  /\ results.pose_detected
  /\ ~results.calibration_status.rich
  /\ pose_detector.baseline_pose = _extract_pose_features(Stand)

\* the detector and the buffer hold nothing of the session before
Cleared(pd, ab) ==
  /\ ~pd.is_calibrated
  /\ pd.calibration_frames = 0
  /\ pd.baseline_pose = NoBaseline
  /\ \A k \in DOMAIN pd.calibration_voice_played :
       ~pd.calibration_voice_played[k]
  /\ \A a \in Actions :
       /\ Get(ab.buffers, a, << >>) = << >>
       /\ Get(ab.action_start_times, a, 0) = 0
       /\ Get(ab.action_durations, a, 0) = 0
       /\ ~Get(ab.action_states, a, FALSE)
       /\ ~is_action_stable(ab, a)

\* frame f at time t is handled as a fresh session handles it
AsFresh(pd, ab, f, t) ==
  LET here == process_frame(pd, ab, f, t)
      fresh == process_frame(NewPoseDetector, NewActionBuffer, f, t)
  IN  /\ here.pd = fresh.pd
      /\ here.results = fresh.results
      /\ here.entries = fresh.entries
      /\ Cleared(here.pd, here.ab) <=> Cleared(fresh.pd, fresh.ab)

\* C16: reset_calibration, from any state, leaves is_calibrated false, the
\* counter 0, the baseline absent, the three prompt flags false and, for
\* every action, history, streak and latch cleared; the frames that follow
\* are handled as in a fresh session.
C16_ResetClearsSession ==
  [][resets' # resets
       => /\ Cleared(pose_detector', action_buffer')
          /\ pose_detector' = NewPoseDetector
          /\ \A f \in FrameNames :
               AsFresh(pose_detector', action_buffer', f, now')]_vars

\* reset_calibration ran right after an iteration that fired left_hand
\* (30 entries, running streak, latch set) in a calibrated session
C16_ResetAfterTrigger ==
  /\ resets = 1
  /\ tracked = 0
  /\ Len(triggered) > 0
  /\ results.calibration_status.value
  /\ triggered[1] \in DOMAIN action_buffer.buffers
  /\ Cleared(pose_detector, action_buffer)

\* ------------------------------------------------------------------------
\* Specification of the two run modes: the frame loop of the GUI or of the
\* console on a script of frames and then on any frames
\* ------------------------------------------------------------------------
InitModeRuns ==
  /\ InitOld
  /\ InitCacheFiles /\ GTTS_AVAILABLE = TRUE
  /\ InitSpeech /\ backend = "C"
  /\ script \in SessionScripts
  /\ mode \in Modes
  /\ toggles = 0
  /\ InitMainIdle /\ InitApp

ModeWorker(f) ==
  IF mode = "gui" THEN DetectionWorker(f) ELSE ConsoleWorker(f)

NotModeFrame ==
  << bufObs, keyObs, handVars, audioVars, cacheVars, speechVars, modeVars,
     mainVars, appVars >>

ModeScriptStep ==
  /\ ScriptFrame /\ ModeWorker(script[1])
  /\ UNCHANGED NotModeFrame

ModeFrameStep ==
  /\ \E f \in FrameNames : SessionFrame(f) /\ ModeWorker(f)
  /\ UNCHANGED NotModeFrame

NotToggle ==
  << envVars, pose_detector, bufVars, keyVars, poseObs, bufObs, keyObs,
     handVars, audioVars, cacheVars, speechVars, sessionVars, mode,
     mainVars, appVars >>

ToggleVoiceStep == ToggleVoice /\ UNCHANGED NotToggle

ToggleActionStep ==
  /\ \E action \in ToggledActions : ToggleAction(action)
  /\ UNCHANGED NotToggle

NextModes ==
  \/ ModeScriptStep \/ ModeFrameStep \/ SessionTickStep
  \/ ToggleVoiceStep \/ ToggleActionStep

SpecModes == InitModeRuns /\ [][NextModes]_vars

Elements(list) == { list[i] : i \in 1..Len(list) }

\* the step is an iteration of the frame loop
LoopIteration ==
  /\ now' = now
  /\ toggles' = toggles
  /\ resets' = resets

\* C18: in GUI mode and in console mode, every action returned by
\* get_triggered_actions (in GUI mode: every such action that is enabled)
\* leads to a press_key call with the key of the action and to a request
\* to speak its success phrase.
C18_TriggeredActionsInjectAndSpeak ==
  [][LoopIteration
       => \A action \in Elements(triggered') :
            mode = "console" \/ gui.action_enabled[action]
              => /\ get_action_key(action) \in Elements(requested')
                 /\ ACTION_SUCCESS(action) \in Elements(spoken')]_vars

\* ------------------------------------------------------------------------
\* Specification of the orchestrator process
\* ------------------------------------------------------------------------
InitMain ==
  /\ InitOld
  /\ InitCacheFiles /\ GTTS_AVAILABLE = TRUE
  /\ InitSpeech /\ backend = "C"
  /\ script = << >> /\ InitModes /\ InitApp
  /\ InitProcess
  /\ args \in ArgvPool
  /\ cameras \in SUBSET CameraIndices
  /\ deps_ok \in BOOLEAN

NotMain == << oldVars, cacheVars, speechVars, sessionVars, modeVars, appVars >>

ImportStep == ImportModules /\ UNCHANGED NotMain
ParseArgsStep == ParseArgs /\ UNCHANGED NotMain
CreateSystemStep == CreateSystem /\ UNCHANGED NotMain
CheckDependenciesStep == CheckDependencies /\ UNCHANGED NotMain
CheckHardwareStep == CheckHardware /\ UNCHANGED NotMain
AfterChecksStep == AfterChecks(args.check) /\ UNCHANGED NotMain
RunModeStep == (\E outcome \in RunOutcomes : RunMode(outcome)) /\ UNCHANGED NotMain

NextMain ==
  \/ ImportStep \/ ParseArgsStep \/ CreateSystemStep
  \/ CheckDependenciesStep \/ CheckHardwareStep \/ AfterChecksStep
  \/ RunModeStep

SpecMain == InitMain /\ [][NextMain]_vars

RunModeNames == { "run_" \o m \o "_mode" : m \in RunModes }

\* the dependency check and the hardware check of this run pass
ChecksPass == deps_ok /\ camera_default # Unbound /\ CameraManager_open_camera.ret

\* C19: with --version the process exits with status 0 before any check
\* runs; with --check, when the dependency check and the hardware check
\* both pass, it exits with status 0 and never enters a run mode.
C19_VersionAndCheckExitEarly ==
  /\ args.version
       => /\ main_pc \in { "import", "parse", "exited" }
          /\ ran = << >> /\ opened = << >>
          /\ main_pc = "exited" => exit_code = 0
  /\ (~args.version /\ args.check /\ ChecksPass)
       => /\ main_pc # "run"
          /\ \A i \in 1..Len(ran) : ran[i] \notin RunModeNames
          /\ main_pc = "exited"
               => /\ exit_code = 0
                  /\ ran = << "check_dependencies", "check_hardware" >>

\* --check on a complete system: both checks ran, then the process exited 0
C19_CheckExitsAfterChecks ==
  /\ args.check /\ ~args.version
  /\ main_pc = "exited" /\ exit_code = 0
  /\ ran = << "check_dependencies", "check_hardware" >>

\* C20: started with --camera N, the hardware check and the run mode open
\* camera index N.
C20_OpensRequestedCamera ==
  \A i \in 1..Len(opened) : opened[i] = args.camera

Ran == { ran[i] : i \in 1..Len(ran) }

\* C21: in main, a failed dependency check exits with status 1 and neither
\* the hardware check nor a run mode runs; a failed hardware check exits
\* with status 1 and no run mode runs; an exception escaping the run mode
\* gives status 1, a KeyboardInterrupt status 0.
C21_FailuresExitOneInterruptZero ==
  /\ (~args.version /\ ~deps_ok)
       => /\ Ran \subseteq { "check_dependencies" }
          /\ "check_dependencies" \in Ran
               => main_pc = "exited" /\ exit_code = 1
  /\ (~args.version /\ deps_ok /\ camera_default # Unbound
        /\ ~CameraManager_open_camera.ret)
       => /\ Ran \subseteq { "check_dependencies", "check_hardware" }
          /\ "check_hardware" \in Ran
               => main_pc = "exited" /\ exit_code = 1
  /\ run_outcome = "Exception" => main_pc = "exited" /\ exit_code = 1
  /\ run_outcome = "KeyboardInterrupt"
       => main_pc = "exited" /\ exit_code = 0

\* a run mode was entered after both checks and raised an exception
C21_RunModeRaised ==
  /\ run_outcome = "Exception"
  /\ Len(ran) = 3 /\ ran[3] \in RunModeNames
  /\ main_pc = "exited" /\ exit_code = 1

\* ------------------------------------------------------------------------
\* Specification of the detection loops
\* ------------------------------------------------------------------------
InitLoops ==
  /\ InitOld
  /\ InitCacheFiles /\ GTTS_AVAILABLE = TRUE
  /\ InitSpeech /\ backend = "C"
  /\ script = << >> /\ InitModes /\ InitMainIdle
  /\ loop_kind \in LoopKinds
  /\ InitLoop
  /\ mgr = NewManager("C", TRUE) /\ InitCalls
  /\ InitWindow /\ camera_ok = TRUE
  /\ InitExtra

NotLoop ==
  << oldVars, cacheVars, speechVars, sessionVars, modeVars, mainVars,
     mgrVars, winVars, extraVars >>

LoopPassStep ==
  /\ \E read \in BOOLEAN, raises \in BOOLEAN, key \in Keys :
       DetectionLoopPass(read, raises, key)
  /\ UNCHANGED NotLoop
LoopExitStep == DetectionLoopExit /\ UNCHANGED NotLoop
StopRequestStep == StopRequest /\ UNCHANGED NotLoop
LoopInterruptStep == LoopInterrupt /\ UNCHANGED NotLoop

NextLoops ==
  LoopPassStep \/ LoopExitStep \/ StopRequestStep \/ LoopInterruptStep

SpecLoops == InitLoops /\ [][NextLoops]_vars

\* C22: in each of the three detection loops an exception raised while a
\* frame is processed is caught and the loop goes on with the next frame;
\* the loop never ends because of such an exception.
C22_FrameErrorsNeverEndLoop ==
  /\ end_cause # "exception"
  /\ last_pass # "escaped"

\* C23: of the GUI state the detection worker thread writes current_frame
\* only; last_action and last_key, like the enable flags, are left as they
\* are by every iteration of the worker (gui holds the GUI state other than
\* current_frame).
C23_WorkerLeavesGuiState ==
  [][mode = "gui" /\ LoopIteration
       => /\ gui'.last_action = gui.last_action
          /\ gui'.last_key = gui.last_key
          /\ gui'.voice_enabled = gui.voice_enabled
          /\ gui'.action_enabled = gui.action_enabled]_vars

\* the keys of the injections made
InjectedKeys(log) == { log[i].key : i \in 1..Len(log) }

\* the step is an iteration of the detection worker of the GUI
GuiIteration == mode = "gui" /\ LoopIteration

\* the triggered, enabled actions whose key was injected in the step
Pressed ==
  { action \in Elements(triggered') :
      /\ gui.action_enabled[action]
      /\ get_action_key(action) \in InjectedKeys(injected') }

\* C30: in the GUI a triggered action whose check box is off causes no key
\* injection, no update of last_action / last_key and no speech request;
\* for an enabled action last_action / last_key are updated and the
\* success phrase is requested only if press_key succeeded, the phrase
\* only if voice is enabled.
C30_CheckBoxGatesActionHandling ==
  [][GuiIteration
       => /\ \A action \in Elements(triggered') \ Pressed :
               /\ ~gui.action_enabled[action]
                    => get_action_key(action) \notin Elements(requested')
               /\ get_action_key(action) \notin InjectedKeys(injected')
               /\ ACTION_SUCCESS(action) \notin Elements(spoken')
               /\ gui'.last_action # gui.last_action
                    => gui'.last_action # ACTION_SUCCESS(action)
               /\ gui'.last_key # gui.last_key
                    => gui'.last_key # get_action_key(action)
          /\ Pressed = {} => gui' = gui
          /\ \A action \in Pressed :
               ACTION_SUCCESS(action) \in Elements(spoken')
                 => gui.voice_enabled]_vars

\* the worker of the GUI handled a triggered action whose check box is off:
\* nothing was injected or spoken, last_action and last_key are still empty
C30_DisabledActionTriggered ==
  /\ mode = "gui"
  /\ triggered # << >>
  /\ \A i \in 1..Len(triggered) : ~gui.action_enabled[triggered[i]]
  /\ injected = << >> /\ requested = << >> /\ spoken = << >>
  /\ gui.last_action = "" /\ gui.last_key = ""

\* C24: in backend A no clip is played while the manager is muted: while
\* is_muted is set the queue is empty (play_text enqueues nothing, set_mute
\* and stop_all_playback clear it), and the playback worker starts no clip.
C24_NoClipWhileMuted ==
  /\ audio.is_muted => audio.voice_queue = << >> /\ caller.saved = << >>
  /\ TRUE \notin mutedAtStart

\* ------------------------------------------------------------------------
\* Specification of the calls on a speech manager
\* ------------------------------------------------------------------------
InitManager ==
  /\ InitOld
  /\ InitCacheFiles /\ GTTS_AVAILABLE = TRUE
  /\ InitSpeech /\ backend = "C"
  /\ script = << >> /\ InitModes /\ InitMainIdle
  /\ loop_kind = "gui" /\ InitLoop
  /\ InitWindow /\ camera_ok = TRUE
  /\ \E kind \in ManagerKinds, local \in BOOLEAN :
       mgr = NewManager(kind, local)
  /\ InitCalls
  /\ InitExtra

NotManager ==
  << oldVars, cacheVars, speechVars, sessionVars, modeVars, mainVars,
     loopVars, winVars, extraVars >>

SetVolumeStep ==
  (\E volume \in VolumeArgs : SetVolumeCall(volume)) /\ UNCHANGED NotManager
SetRateStep ==
  (\E rate \in RateArgs : SetRateCall(rate)) /\ UNCHANGED NotManager
SetEnabledStep ==
  (\E enabled \in BOOLEAN : SetEnabledCall(enabled)) /\ UNCHANGED NotManager
ConvenienceStep ==
  /\ \E op \in ConvenienceCalls, action \in Actions, uttered \in BOOLEAN :
       ConvenienceCall(op, action, uttered)
  /\ UNCHANGED NotManager
OtherUtteranceStep == OtherUtterance /\ UNCHANGED NotManager

NextManager ==
  \/ SetVolumeStep \/ SetRateStep \/ SetEnabledStep \/ ConvenienceStep
  \/ OtherUtteranceStep

SpecManager == InitManager /\ [][NextManager]_vars

\* C25: each of play_system_start, play_action_instructions,
\* play_calibration_success and play_action_success of backend C returns a
\* true value exactly when its speak call returned True.
C25_ConvenienceReportsSpeak ==
  mcall.op \in ConvenienceCalls
    => (mcall.ret = "True" <=> mcall.speak_ret = "True")

\* C26: after set_volume(v) the stored volume is min(1, max(0, v)); after
\* set_rate(r) on a manager using the local engine the stored rate is
\* min(300, max(50, r)); the volume is always within [0, 1] and the rate
\* within [50, 300].
C26_VolumeAndRateClamped ==
  /\ mcall.op = "set_volume"
       => mgr.volume = Min(VOLUME_MAX, Max(VOLUME_MIN, mcall.arg))
  /\ mcall.op = "set_rate" /\ mgr.use_local_voice
       => mgr.rate = Min(RATE_MAX, Max(RATE_MIN, mcall.arg))
  /\ VOLUME_MIN <= mgr.volume /\ mgr.volume <= VOLUME_MAX
  /\ RATE_MIN <= mgr.rate /\ mgr.rate <= RATE_MAX

\* a rate below the range was set, then a volume above the range
C26_ClampedAtBothEnds ==
  /\ mcall.op = "set_volume" /\ mcall.arg > VOLUME_MAX
  /\ mgr.volume = VOLUME_MAX
  /\ mgr.rate = RATE_MIN

\* C27: the action catalog has exactly 9 entries, with pairwise distinct
\* action ids and pairwise distinct key characters, and each entry has a
\* non-empty instruction and a non-empty success phrase.  The key
\* characters are compared for the action of each play_action_success
\* call, and the calls range over the whole catalog.
C27_CatalogWellFormed ==
  /\ Len(ActionKeyOrder) = 9 /\ Cardinality(Actions) = 9
  /\ DOMAIN ACTION_KEYS = Actions
  /\ DOMAIN ACTION_INSTRUCTIONS = Actions
  /\ DOMAIN ACTION_SUCCESS_PHRASES = Actions
  /\ \A a \in Actions :
       /\ get_action_key(a) # ""
       /\ ACTION_INSTRUCTIONS[a] # ""
       /\ ACTION_SUCCESS(a) # ""
  /\ mcall.op = "play_action_success"
       => /\ mcall.arg \in Actions
          /\ \A b \in Actions \ { mcall.arg } :
               get_action_key(b) # get_action_key(mcall.arg)

\* play_action_success of the last entry of the catalog: speak accepted
\* its success phrase
C27_LastEntrySpoken ==
  /\ mcall.op = "play_action_success"
  /\ mcall.arg = ActionKeyOrder[Len(ActionKeyOrder)]
  /\ mcall.speak_ret = "True"

\* ------------------------------------------------------------------------
\* Specification of the window of the GUI
\* ------------------------------------------------------------------------
InitGuiWindow ==
  /\ InitOld
  /\ InitCacheFiles /\ GTTS_AVAILABLE = TRUE
  /\ InitSpeech /\ backend = "C"
  /\ script = << >> /\ InitModes /\ InitMainIdle
  /\ loop_kind = "gui" /\ InitLoop
  /\ mgr = NewManager("C", TRUE) /\ InitCalls
  /\ InitWindow
  /\ camera_ok \in BOOLEAN
  /\ InitExtra

NotWindow ==
  << oldVars, cacheVars, speechVars, sessionVars, modeVars, mainVars,
     loopVars, mgrVars, extraVars >>

ToggleSystemStep ==
  (\E joined, voice \in BOOLEAN : ToggleSystem(joined, voice))
  /\ UNCHANGED NotWindow
WindowCloseStep ==
  /\ \E joined \in BOOLEAN, done \in 0..Len(CloseSteps) :
       WindowClose(joined, done)
  /\ UNCHANGED NotWindow
DetectionThreadStep ==
  (\E speaks \in BOOLEAN : DetectionThreadPass(speaks)) /\ UNCHANGED NotWindow
WorkerSpeakReturnsStep == WorkerSpeakReturns /\ UNCHANGED NotWindow
OrphanThreadStep == OrphanThreadPass /\ UNCHANGED NotWindow
ScheduleUpdateStep == ScheduleUpdate /\ UNCHANGED NotWindow
CameraChangeStep == CameraChange /\ UNCHANGED NotWindow

NextGuiWindow ==
  \/ ToggleSystemStep \/ WindowCloseStep \/ DetectionThreadStep
  \/ ScheduleUpdateStep \/ CameraChangeStep
  \/ WorkerSpeakReturnsStep \/ OrphanThreadStep

SpecGuiWindow == InitGuiWindow /\ [][NextGuiWindow]_vars

\* in log, every x comes before every y
Precedes(log, x, y) ==
  \A i, j \in 1..Len(log) : log[i] = x /\ log[j] = y => i < j

Has(log, x) == \E i \in 1..Len(log) : log[i] = x

StopOrder ==
  << "clear_running", "join", "close_camera", "stop_instructions",
     "video_label", "key_display" >>

\* C28: stop_system clears the running flag, joins the detection thread,
\* releases the camera, stops the instruction repeater and resets the video
\* pane and the key indicator, in this order; on window close the stop
\* sequence, run if the system was running, comes before the release of
\* the pose model, which comes before the cleanup of the speech backend,
\* which comes before the window is destroyed.
C28_StopAndCloseOrder ==
  /\ handler.was_running
       => /\ \A k \in 1..Len(StopOrder) : Has(handler.steps, StopOrder[k])
          /\ \A k \in 1..(Len(StopOrder) - 1) :
               Precedes(handler.steps, StopOrder[k], StopOrder[k + 1])
          /\ ~app.is_running /\ ~app.camera_is_opened
          /\ ~app.repeater_running
          /\ app.video_label = "placeholder"
          /\ app.key_display = "placeholder"
  /\ handler.name = "on_closing"
       => /\ Precedes(handler.steps, "key_display", "pose_cleanup")
          /\ Precedes(handler.steps, "pose_cleanup", "audio_cleanup")
          /\ Precedes(handler.steps, "audio_cleanup", "destroy")
          /\ Has(handler.steps, "destroy")
               => Has(handler.steps, "audio_cleanup")
          /\ Has(handler.steps, "audio_cleanup")
               => Has(handler.steps, "pose_cleanup")
          /\ app.window = "destroyed"
               => app.pose_model = "closed" /\ app.speech = "cleaned"

\* the window was closed while the system was running and every step
\* completed
C28_ClosedWhileRunning ==
  /\ handler.name = "on_closing" /\ handler.was_running
  /\ Len(handler.steps) = 11
  /\ app.window = "destroyed"

\* the step is a call of start_system
StartSystemCall == starts' = starts + 1

\* C29: when the camera fails to open, start_system returns with the
\* running flag still false, with no detection thread and no redraw loop
\* started and with the start button unchanged; a start_system after an
\* aborted one starts the system when the camera opens.
C29_FailedOpenAbortsStart ==
  [][StartSystemCall =>
       IF camera_ok
       THEN /\ app'.is_running
            /\ app'.detection_thread = "alive"
            /\ app'.threads_started = app.threads_started + 1
            /\ app'.redraw_loops = app.redraw_loops + 1
            /\ app'.start_button = "stop_system"
       ELSE /\ ~app'.is_running
            /\ app'.detection_thread = app.detection_thread
            /\ app'.threads_started = app.threads_started
            /\ app'.redraw_loops = app.redraw_loops
            /\ app'.start_button = app.start_button
            /\ app'.start_button = "start_system"
            /\ app'.window = "open"]_vars

\* the first start was aborted and the second one started the system
C29_StartedAfterAbort ==
  /\ aborts = 1 /\ starts = 2
  /\ handler.name = "start_system"
  /\ app.is_running /\ app.threads_started = 1

\* ------------------------------------------------------------------------
\* Specification of the sessions that track several actions: the detection
\* worker on a script of frames and then on any frames
\* ------------------------------------------------------------------------
InitTrack ==
  /\ InitOld
  /\ InitCacheFiles /\ GTTS_AVAILABLE = TRUE
  /\ InitSpeech /\ backend = "C"
  /\ script \in TrackScripts
  /\ InitModes /\ InitMainIdle /\ InitApp

NotTrack ==
  << bufObs, keyObs, handVars, audioVars, cacheVars, speechVars, modeVars,
     mainVars, loopVars, mgrVars, winVars, showVars, promptVars, menuVars >>

TrackScriptStep ==
  /\ ScriptFrame /\ DetectionWorker(script[1]) /\ TrackRecord(script[1])
  /\ UNCHANGED NotTrack

TrackFrameStep ==
  /\ \E f \in TrackFrames :
       TrackFrame(f) /\ DetectionWorker(f) /\ TrackRecord(f)
  /\ UNCHANGED NotTrack

TrackTickStep ==
  /\ pose_detector.is_calibrated
  /\ Tick(MaxTrackClock)
  /\ UNCHANGED << poseVars, bufVars, keyVars, poseObs, bufObs, keyObs,
                  handVars, audioVars, otherVars >>

NextTrack == TrackScriptStep \/ TrackFrameStep \/ TrackTickStep

SpecTrack == InitTrack /\ [][NextTrack]_vars

HandActions == { "both_hands", "left_hand", "right_hand" }

\* C31: the list returned by get_triggered_actions holds at most one action
\* or only actions among both_hands, left_hand and right_hand.
C31_OneTriggerOrHands ==
  \/ Cardinality(Elements(triggered)) <= 1
  \/ Elements(triggered) \subseteq HandActions

\* both_hands fires together with left_hand and right_hand
C31_ThreeHandsTrigger ==
  /\ Elements(triggered) = HandActions
  /\ Len(triggered) = 3

\* left_foot fires while left_hand, fired before, is still stable
C31_FootAfterHand ==
  /\ triggered = << "left_foot" >>
  /\ is_action_stable(action_buffer, "left_hand")

\* the frame just processed was tracked: the engine was calibrated before it
\* and found a pose in it
TrackedFrame ==
  /\ results.pose_detected
  /\ ~results.calibration_status.rich
  /\ results.calibration_status.value

\* the number of the last 30 tracked frames that marked action a detected
MarkedCount(a) ==
  Cardinality({ i \in 1..Len(recentMarks) : a \in recentMarks[i] })

\* C33: every action returned by get_triggered_actions was marked detected
\* in at least 80% of the 30 most recent tracked frames and in every
\* tracked frame of the 1.0 s before.
C33_TriggeredWasRecentlyDetected ==
  \A a \in Elements(triggered) :
    /\ Len(recentMarks) = buffer_size
    /\ STABILITY_RATIO_DEN * MarkedCount(a)
         >= STABILITY_RATIO_NUM * buffer_size
    /\ lastMiss[a] = 0 \/ now - lastMiss[a] > MIN_DURATION

\* left_hand fires in a frame although fewer than 24 of the 30 most recent
\* tracked frames marked it
C33_TriggerBelowRatio ==
  /\ triggered = << "left_hand" >>
  /\ Len(recentMarks) = buffer_size
  /\ MarkedCount("left_hand") < 24

\* the accepted action of the frame just processed
AcceptedAction == IF added = << >> THEN "none" ELSE added[1][1]

\* the checks of the frame just processed against the baseline
ChecksOfFrame ==
  ActionsDetected(pose_detector.baseline_pose,
                  _extract_pose_features(FramePool[frame]))

\* C34: in a tracked frame in which the both-hands check is true and no
\* foot, knee or head check is, the accepted action is both_hands.
C34_BothHandsAccepted ==
  (/\ TrackedFrame
   /\ ChecksOfFrame.both_hands
   /\ \A a \in Actions \ HandActions : ~ChecksOfFrame[a])
    => /\ AcceptedAction = "both_hands"
       /\ added[1][2]

\* both wrists are 0.2 above the shoulders and left_hand alone is accepted
C34_LeftHandAcceptedInstead ==
  /\ TrackedFrame
  /\ frame = "BothHigh"
  /\ ChecksOfFrame.both_hands
  /\ added = << << "left_hand", TRUE >> >>

\* ------------------------------------------------------------------------
\* Specification of the key indicator
\* ------------------------------------------------------------------------
InitShow ==
  /\ InitOld
  /\ InitCacheFiles /\ GTTS_AVAILABLE = TRUE
  /\ InitSpeech /\ backend = "C"
  /\ InitLater

NotShown ==
  << frame, results, added, triggered, poseChanges, tracked, resets,
     stableRunAll, stableRunSeen, promptCount, held, distanceSeen,
     bufVars, bufObs, keyObs, handVars, audioVars, cacheVars, speechVars,
     sessionVars, modeVars, mainVars, loopVars, mgrVars, winVars,
     trackVars, promptVars, menuVars >>

HandleTriggeredStep ==
  /\ \E action \in ShownActions, raises \in BOOLEAN :
       HandleTriggered(action, raises)
  /\ UNCHANGED << now, pose_detector, KEYBOARD_LIB >>
  /\ UNCHANGED NotShown

UpdateKeyDisplayStep ==
  /\ update_key_display
  /\ gui' # gui
  /\ UNCHANGED << now, pose_detector, keyVars, injected, requested, spoken >>
  /\ UNCHANGED NotShown

RevertCallbackStep ==
  /\ \E due \in revertAt : RevertCallback(due)
  /\ UNCHANGED << now, poseVars, keyVars, injected, requested, spoken >>
  /\ UNCHANGED NotShown

ShowTickStep ==
  /\ Tick(MaxShowClock)
  /\ UNCHANGED << poseVars, bufVars, keyVars, poseObs, bufObs, keyObs,
                  handVars, audioVars, otherVars >>

NextShow ==
  \/ HandleTriggeredStep \/ UpdateKeyDisplayStep \/ RevertCallbackStep
  \/ ShowTickStep

SpecShow == InitShow /\ [][NextShow]_vars

\* C32: a key injected with success reaches the indicator (it is not
\* replaced in last_key by another key before update_key_display has shown
\* it), and the indicator goes back to the dash only when the key on it
\* has been shown for 1 second.
C32_KeyShownForOneSecond ==
  [][/\ (handled' # handled /\ injected' # << >> /\ gui.last_key # "")
         => gui'.last_key = gui.last_key
     /\ (indicator # PLACEHOLDER /\ indicator' = PLACEHOLDER)
         => now - shownAt >= REVERT_DELAY]_vars

\* the first part alone: no key is replaced in last_key before it is shown
C32_KeyNeverShown ==
  [][(handled' # handled /\ injected' # << >> /\ gui.last_key # "")
       => gui'.last_key = gui.last_key]_vars

\* the second part alone: no callback reverts the indicator under a key
\* shown for less than 1 second
C32_RevertedEarly ==
  [][(indicator # PLACEHOLDER /\ indicator' = PLACEHOLDER)
       => now - shownAt >= REVERT_DELAY]_vars

\* the detection threads that have not ended
LiveWorkers ==
  app.orphans + (IF app.detection_thread = "alive" THEN 1 ELSE 0)

\* C35: whatever the start button is clicked, at most one detection thread
\* is alive.
C35_OneDetectionThread == LiveWorkers <= 1

\* C36: while the camera is released no detection thread is alive:
\* stop_system releases the camera after the thread has left its loop, also
\* when the thread was inside speak at the time of the stop.
C36_CameraReleasedAfterWorker ==
  (handler.name \in { "stop_system", "on_closing" } /\ ~app.camera_is_opened
     /\ Has(handler.steps, "close_camera"))
    => LiveWorkers = 0

\* ------------------------------------------------------------------------
\* Specification of the calibration prompts of a GUI session
\* ------------------------------------------------------------------------
InitPromptRuns ==
  /\ InitOld
  /\ InitCacheFiles /\ GTTS_AVAILABLE = TRUE
  /\ InitSpeech /\ backend = "C"
  /\ InitLater

NotPrompt ==
  << bufObs, keyObs, handVars, audioVars, cacheVars, speechVars,
     sessionVars, modeVars, mainVars, loopVars, mcall, mgrCalls, handler,
     camera_ok, starts, aborts, trackVars, showVars, menuVars >>

StartAndAnnounceStep ==
  /\ StartAndAnnounce
  /\ UNCHANGED << envVars, poseVars, bufVars, keyVars, poseObs >>
  /\ UNCHANGED NotPrompt

AnnouncementEndsStep ==
  /\ AnnouncementEnds
  /\ UNCHANGED << envVars, poseVars, bufVars, keyVars, poseObs >>
  /\ UNCHANGED NotPrompt

PromptWorkerStep ==
  /\ \E f \in PromptFrames : PromptWorker(f)
  /\ UNCHANGED << poseChanges, tracked >>
  /\ UNCHANGED NotPrompt

PromptSpokenStep ==
  /\ PromptSpoken
  /\ UNCHANGED << envVars, poseVars, bufVars, keyVars, poseObs >>
  /\ UNCHANGED NotPrompt

NextPrompt ==
  \/ StartAndAnnounceStep \/ AnnouncementEndsStep \/ PromptWorkerStep
  \/ PromptSpokenStep

\* the camera keeps delivering frames and every utterance comes to an end
FairSpecPrompt ==
  /\ InitPromptRuns /\ [][NextPrompt]_vars
  /\ WF_vars(PromptWorkerStep)
  /\ WF_vars(AnnouncementEndsStep)
  /\ WF_vars(PromptSpokenStep)

\* C37: with the voice check box set, every voice prompt returned by the
\* calibration check is, sooner or later, accepted and spoken by the speech
\* backend.
C37_PromptsEventuallySpoken ==
  \A p \in CalibrationPrompts : (p \in emitted) ~> (p \in heard)

\* the detection thread asked for a prompt while the start announcement was
\* being spoken, and speak turned it down
C37_PromptDroppedWhileAnnouncing ==
  /\ announcing /\ mgr.is_speaking
  /\ emitted = { BODY_NOT_COMPLETE }
  /\ heard = {}
  /\ spoken = << BODY_NOT_COMPLETE >>

\* C39: in console mode an iteration of the frame loop asks for the
\* calibration-success phrase exactly when calibration completes in that
\* iteration: once per session, and never while calibration is in progress.
C39_ConsoleSuccessOnCompletion ==
  [][LoopIteration /\ mode = "console"
       => ("CALIBRATION_SUCCESS" \in Elements(spoken')
             <=> ~pose_detector.is_calibrated
                   /\ pose_detector'.is_calibrated)]_vars

\* no console iteration asks for the phrase while the engine is still
\* counting stable frames
C39_NeverWhileCalibrating ==
  [][LoopIteration /\ mode = "console" /\ ~pose_detector'.is_calibrated
       => "CALIBRATION_SUCCESS" \notin Elements(spoken')]_vars

\* the console iteration in which calibration completes asks for the phrase
C39_SpokenOnCompletion ==
  [][LoopIteration /\ mode = "console"
       /\ ~pose_detector.is_calibrated /\ pose_detector'.is_calibrated
       => "CALIBRATION_SUCCESS" \in Elements(spoken')]_vars

\* ------------------------------------------------------------------------
\* Specification of the menu of the console demo
\* ------------------------------------------------------------------------
InitMenuRuns ==
  /\ InitOld
  /\ InitCacheFiles /\ GTTS_AVAILABLE = TRUE
  /\ InitSpeech /\ backend = "B"
  /\ InitLater

NotMenu ==
  << envVars, poseVars, bufVars, keyVars, poseObs, bufObs, keyObs, handVars,
     audioVars, cacheVars, speechVars, sessionVars, modeVars, mainVars,
     loopVars, mgrVars, winVars, trackVars, showVars, promptVars >>

ChooseTestStep ==
  /\ \E cam_ok \in BOOLEAN : ChooseTest(cam_ok)
  /\ UNCHANGED NotMenu

ChooseDemoStep ==
  /\ \E cam_ok \in BOOLEAN : ChooseDemo(cam_ok)
  /\ UNCHANGED NotMenu

DemoFrameStep ==
  /\ \E read, raises, speaks \in BOOLEAN : \E key \in Keys :
        DemoFrame(read, raises, key, speaks)
  /\ UNCHANGED NotMenu

DemoInterruptStep == DemoInterrupt /\ UNCHANGED NotMenu
ChooseInvalidStep == ChooseInvalid /\ UNCHANGED NotMenu
ChooseExitStep == ChooseExit /\ UNCHANGED NotMenu
MenuInterruptStep == MenuInterrupt /\ UNCHANGED NotMenu

NextMenu ==
  \/ ChooseTestStep \/ ChooseDemoStep \/ DemoFrameStep
  \/ DemoInterruptStep \/ ChooseInvalidStep \/ ChooseExitStep
  \/ MenuInterruptStep

SpecMenu == InitMenuRuns /\ [][NextMenu]_vars

\* C40: whatever is chosen in the menu, a component is cleaned up only when
\* the program has left the menu by exit or interrupt, no component is
\* used after its cleanup, and none is cleaned up twice.
C40_CleanedUpOnlyAtExit ==
  /\ (\E c \in Components : parts[c].cleaned > 0)
       => menu_pc \in { "exited", "interrupted" }
  /\ \A c \in Components : ~parts[c].used_after
  /\ \A c \in Components : parts[c].cleaned <= 1

\* no component is used after it has been cleaned up
C40_NoUseAfterCleanup ==
  \A c \in { "pose_detector", "audio_manager" } : ~parts[c].used_after

\* no component is cleaned up twice
C40_CleanedUpOnce ==
  \A c \in Components : parts[c].cleaned <= 1

\* ------------------------------------------------------------------------
\* Backend A with its threads running on: the playback thread and a call
\* of play_text that has begun always take their next step, while nothing
\* obliges a caller to call play_text again
\* ------------------------------------------------------------------------
PlaybackRunsOn ==
  \/ SortBeginStep \/ SortEndStep \/ StartPlaybackStep
  \/ WorkerBeginStep \/ WorkerTestStep \/ WorkerPopStep
  \/ WorkerStartClipStep \/ WorkerPlayedStep
  \/ WorkerExitStep \/ WorkerEndStep

FairSpecAudio == InitA /\ [][NextA]_vars /\ WF_vars(PlaybackRunsOn)

\* play_text has returned True for the clip with enqueue number s
ClipAccepted(s) ==
  s < caller.enqueued \/ (s = caller.enqueued /\ caller.pc = "idle")

\* the playback thread has taken the clip with enqueue number s
WasPlayed(s) == \E i \in 1..Len(played) : played[i].seq = s

\* C38: a clip for which play_text returned True is played sooner or
\* later, unless set_mute is called, and without any further play_text
\* call being needed.
C38_AcceptedEventuallyPlayed ==
  \A s \in 1..MaxPlays :
     ClipAccepted(s) ~> (WasPlayed(s) \/ caller.mutes > 0)

\* play_text has returned True, the playback thread has ended, and the
\* clip is still in the queue
C38_ClipLeftInQueue ==
  /\ caller.pc = "idle" /\ caller.mutes = 0 /\ ~audio.is_muted
  /\ play_thread = "none" /\ ~audio.is_playing
  /\ audio.voice_queue # << >>

====
